---- MODULE Spec2Model ----
(***************************************************************************)
(* The hunk chunker of extract_dataset.py (duplicated in local_extract.py): *)
(* parse_patch_hunks, merge_close_hunks and add_editable_region_markers.    *)
(*                                                                          *)
(* Representation of Python values:                                         *)
(*   - a hunk (old_start, end_line) is the tuple <<old_start, end_line>>;   *)
(*   - a str is held as the sequence str.split('\n') of its lines, so the   *)
(*     empty string '' is the one-line sequence <<''>> and None is the      *)
(*     empty sequence <<>>, which no split can return;                      *)
(*   - a line of a patch is a sequence of one-character strings.            *)
(***************************************************************************)
EXTENDS Integers, Sequences, FiniteSets, TLC

VARIABLES
    pc,             \* position of the call under study: "call", "loop", "done"
    hunks,          \* merge_close_hunks: the argument hunks
    max_gap,        \* the argument max_gap
    sorted_hunks,   \* merge_close_hunks: the local sorted_hunks
    merged,         \* merge_close_hunks: the local merged
    idx,            \* 1-based position of `current` in sorted_hunks
    patch,          \* parse_patch_hunks: the argument patch
    parsed,         \* parse_patch_hunks: the returned list
    file_record,    \* add_editable_region_markers: the dict file_record
    context_before, \* the argument context_before
    context_after,  \* the argument context_after
    chunk_records,  \* add_editable_region_markers: the returned list
    file_records,   \* add_markers_to_dataset: the argument file_records
    all_chunks,     \* add_markers_to_dataset: the local all_chunks
    record_idx,     \* 1-based position of `record` in file_records
    processed,      \* add_markers_to_dataset: the counter processed
    skipped,        \* add_markers_to_dataset: the counter skipped
    local_file_record,   \* local_extract.py: the dict given to its add_editable_region_markers
    local_chunk_records, \* local_extract.py: the list its add_editable_region_markers returned
    call_pc,        \* per record: the position of the call of add_editable_region_markers on it
    call_hunks,     \* per record: the local hunks of that call
    call_merged,    \* per record: the local merged_hunks of that call
    call_chunks,    \* per record: the local chunk_records of that call, returned at the end
    args,           \* filter_dataset.py: the parsed arguments
    kept,           \* filter_dataset.main: the list kept
    drop_reasons,   \* filter_dataset.main: the Counter drop_reasons
    filter_idx,     \* 1-based position of `record` in the records main loops over
    examples,       \* create_splits: the argument examples
    ratios,         \* create_splits: train_ratio, val_ratio and test_ratio, as fractions
    by_pattern,     \* create_splits: the dict by_pattern, as its items in insertion order
    split_idx,      \* 1-based position of the loop over by_pattern.items()
    train,          \* create_splits: the list train
    val,            \* create_splits: the list val
    test,           \* create_splits: the list test
    records,        \* auto_classify.main: the records loaded, each with its "_index"
    labels_file,    \* the lines of data/pattern_labels.jsonl (none when there is no file)
    labels_file_before, \* the lines of that file when main began
    existing_labels,    \* auto_label_all: the argument existing_labels
    new_labels,     \* auto_label_all: the dict new_labels
    stats,          \* auto_label_all: the Counter stats
    label_pos,      \* 1-based position of `record` in records
    runs            \* how many times main has run to its end

mergeVars == <<hunks, sorted_hunks, merged, idx>>
parseVars == <<patch, parsed>>
chunkVars == <<file_record, context_before, context_after, chunk_records>>
datasetVars == <<file_records, all_chunks, record_idx, processed, skipped>>
copyVars == <<local_file_record, local_chunk_records>>
callVars == <<call_pc, call_hunks, call_merged, call_chunks>>
filterVars == <<args, kept, drop_reasons, filter_idx>>
splitVars == <<examples, ratios, by_pattern, split_idx, train, val, test>>
labelVars ==
    <<records, labels_file, labels_file_before, existing_labels, new_labels, stats,
      label_pos, runs>>
vars ==
    <<pc, max_gap, mergeVars, parseVars, chunkVars, datasetVars, copyVars, callVars,
      filterVars, splitVars, labelVars>>

\* ------------------------------------------------------------------ bounds
MaxHunks == 3
MaxStart == 3
MaxCount == 2
MaxGap == 2
MaxOldStart == 3
MaxPatchLines == 2
MaxLines == 3
MaxContext == 1
MaxChunkHunks == 2
MaxRecords == 2
MaxExamples == 4
MaxIndex == 2
MaxRuns == 2

\* Python's None for a str or a list, and the empty string (see the header).
None == <<>>

Max(a, b) == IF a >= b THEN a ELSE b
Min(a, b) == IF a <= b THEN a ELSE b

\* Sequences over S of length at most n.
SeqUpTo(S, n) == UNION {[1..k -> S] : k \in 0..n}

\* The hunks the parser can return: old_start >= 0, end_line = old_start + count.
HunkSet == {<<s, s + c>> : s \in 0..MaxStart, c \in 0..MaxCount}

\* ------------------------------------------------------- merge_close_hunks
\* sorted(hunks, key=lambda x: x[0]): Python's sort is stable, so a hunk goes
\* after every hunk already placed whose start is <= its own.
InsertByStart(s, h) ==
    LET k == Cardinality({i \in 1..Len(s) : s[i][1] <= h[1]})
    IN  SubSeq(s, 1, k) \o <<h>> \o SubSeq(s, k + 1, Len(s))

RECURSIVE SortFrom(_, _)
SortFrom(acc, rest) ==
    IF rest = <<>> THEN acc
    ELSE SortFrom(InsertByStart(acc, Head(rest)), Tail(rest))

NoSort(h) == h

sorted_by_start(h) == SortFrom(<<>>, h)

\* The body of the loop over sorted_hunks[1:], a mutant first.
MergeStepReversed(m, current, gap) ==
    LET last == m[Len(m)]
    IN  IF current[1] - last[2] >= gap
        THEN [m EXCEPT ![Len(m)] = <<last[1], Max(last[2], current[2])>>]
        ELSE Append(m, current)

MergeStepOverwrite(m, current, gap) ==
    LET last == m[Len(m)]
    IN  IF current[1] - last[2] <= gap
        THEN [m EXCEPT ![Len(m)] = <<last[1], current[2]>>]
        ELSE Append(m, current)

MergeStepNoElse(m, current, gap) ==
    LET last == m[Len(m)]
    IN  IF current[1] - last[2] <= gap
        THEN Append([m EXCEPT ![Len(m)] = <<last[1], Max(last[2], current[2])>>], current)
        ELSE Append(m, current)

MergeStepStrict(m, current, gap) ==
    LET last == m[Len(m)]
    IN  IF current[1] - last[2] < gap
        THEN [m EXCEPT ![Len(m)] = <<last[1], Max(last[2], current[2])>>]
        ELSE Append(m, current)

MergeStep(m, current, gap) ==
    LET last == m[Len(m)]
    IN  IF current[1] - last[2] <= gap
        THEN [m EXCEPT ![Len(m)] = <<last[1], Max(last[2], current[2])>>]
        ELSE Append(m, current)

RECURSIVE MergeLoop(_, _, _)
MergeLoop(m, rest, gap) ==
    IF rest = <<>> THEN m
    ELSE MergeLoop(MergeStep(m, Head(rest), gap), Tail(rest), gap)

merge_close_hunks(h, gap) ==
    IF h = <<>> THEN <<>>
    ELSE LET s == sorted_by_start(h)
         IN  MergeLoop(<<s[1]>>, Tail(s), gap)

\* ------------------------------------------------------- parse_patch_hunks
Digits == <<"0", "1", "2", "3", "4", "5", "6", "7", "8", "9">>

IsDigit(c) == c \in {Digits[d] : d \in 1..10}

DigitValue(c) == (CHOOSE d \in 1..10 : Digits[d] = c) - 1

\* int(s) of a non-empty string of decimal digits.
RECURSIVE IntFrom(_, _)
IntFrom(acc, ds) ==
    IF ds = <<>> THEN acc
    ELSE IntFrom(10 * acc + DigitValue(Head(ds)), Tail(ds))

int(ds) == IntFrom(0, ds)

\* The literal `lit` stands in `line` at position p.
LitAt(line, p, lit) ==
    /\ p + Len(lit) - 1 <= Len(line)
    /\ SubSeq(line, p, p + Len(lit) - 1) = lit

\* Length of the longest run of digits of `line` that starts at position p.
RECURSIVE DigitRun(_, _)
DigitRun(line, p) ==
    IF p > Len(line) \/ ~IsDigit(line[p]) THEN 0 ELSE 1 + DigitRun(line, p + 1)

line_startswith(line, lit) == LitAt(line, 1, lit)

\* The pattern r'@@ -(\d+),?(\d*) \+(\d+),?(\d*) @@' tried at position p.  Each
\* \d+ and \d* is followed by a non-digit of the pattern, so a match, when there
\* is one, is the greedy one: every group takes its whole run of digits.
\* Returns <<group 1, group 2>>, or <<>> when the pattern does not match at p.
MatchAt(line, p) ==
    LET p1 == p + 4
        n1 == DigitRun(line, p1)
        p2 == p1 + n1
        c1 == IF LitAt(line, p2, <<",">>) THEN 1 ELSE 0
        p3 == p2 + c1
        n2 == DigitRun(line, p3)
        p4 == p3 + n2
        p5 == p4 + 2
        n3 == DigitRun(line, p5)
        p6 == p5 + n3
        c2 == IF LitAt(line, p6, <<",">>) THEN 1 ELSE 0
        p7 == p6 + c2
        n4 == DigitRun(line, p7)
        p8 == p7 + n4
    IN  IF /\ LitAt(line, p, <<"@", "@", " ", "-">>)
           /\ n1 >= 1
           /\ LitAt(line, p4, <<" ", "+">>)
           /\ n3 >= 1
           /\ LitAt(line, p8, <<" ", "@", "@">>)
        THEN <<SubSeq(line, p1, p2 - 1), SubSeq(line, p3, p4 - 1)>>
        ELSE <<>>

\* re.search: the match at the leftmost position from p on that has one, <<>>
\* for None.
RECURSIVE SearchFrom(_, _)
SearchFrom(line, p) ==
    IF p > Len(line) THEN <<>>
    ELSE LET m == MatchAt(line, p)
         IN  IF m # <<>> THEN m ELSE SearchFrom(line, p + 1)

re_search(line) == SearchFrom(line, 1)

\* Lines 242-245, a mutant first.
HunkOfMatchNoStart(groups) ==
    LET old_count == IF groups[2] # <<>> THEN int(groups[2]) ELSE 1
    IN  <<int(groups[1]), old_count>>

HunkOfMatch(groups) ==
    LET old_start == int(groups[1])
        old_count == IF groups[2] # <<>> THEN int(groups[2]) ELSE 1
        end_line == old_start + old_count
    IN  <<old_start, end_line>>

\* The loop that ends at the first line that starts with @@ and does not match.
RECURSIVE ParseLinesStopAtMalformed(_, _)
ParseLinesStopAtMalformed(lines, i) ==
    IF i > Len(lines) THEN <<>>
    ELSE LET line == lines[i]
             match == IF line_startswith(line, <<"@", "@">>) THEN re_search(line) ELSE <<>>
         IN  IF line_startswith(line, <<"@", "@">>) /\ match = <<>>
             THEN <<>>
             ELSE (IF match # <<>> THEN <<HunkOfMatch(match)>> ELSE <<>>)
                     \o ParseLinesStopAtMalformed(lines, i + 1)

\* The loop that drops a hunk equal to one of a later line.
RECURSIVE ParseLinesDedup(_, _)
ParseLinesDedup(lines, i) ==
    IF i > Len(lines) THEN <<>>
    ELSE LET line == lines[i]
             match == IF line_startswith(line, <<"@", "@">>) THEN re_search(line) ELSE <<>>
             rest == ParseLinesDedup(lines, i + 1)
         IN  IF match # <<>> /\ ~(\E j \in 1..Len(rest) : rest[j] = HunkOfMatch(match))
             THEN <<HunkOfMatch(match)>> \o rest
             ELSE rest

\* Lines 238-245: the hunks of the lines from position i on.
RECURSIVE ParseLines(_, _)
ParseLines(lines, i) ==
    IF i > Len(lines) THEN <<>>
    ELSE LET line == lines[i]
             match == IF line_startswith(line, <<"@", "@">>) THEN re_search(line) ELSE <<>>
         IN  (IF match # <<>> THEN <<HunkOfMatch(match)>> ELSE <<>>)
                 \o ParseLines(lines, i + 1)

\* `not s` for a str: None or ''.
Falsy(s) == s = None \/ s = <<<<>>>>

parse_patch_hunks(p) ==
    IF Falsy(p) THEN <<>> ELSE ParseLines(p, 1)

\* ---------------------------------------------------------- patches to parse
\* str(n) for n >= 0.
RECURSIVE str(_)
str(n) == IF n < 10 THEN <<Digits[n + 1]>> ELSE str(n \div 10) \o <<Digits[(n % 10) + 1]>>

\* A range of a hunk header: start, and ",count" unless the count is omitted
\* (written -1 here).
Range(start, count) ==
    str(start) \o (IF count < 0 THEN <<>> ELSE <<",">> \o str(count))

\* A hunk header as diff writes it.
Header(os, oc, ns, nc, tail) ==
    <<"@", "@", " ", "-">> \o Range(os, oc) \o <<" ", "+">> \o Range(ns, nc)
        \o <<" ", "@", "@">> \o tail

\* The valid headers of the model: every old start and old count (or none).
ValidHeaders ==
    {Header(os, oc, os + 1, oc, <<>>) : os \in 0..MaxOldStart, oc \in (-1)..MaxCount}
        \cup {Header(12, 10, 12, 11, <<" ", "f">>), Header(7, -1, 7, -1, <<>>)}

\* Lines that are no hunk header: text of the diff, a header that is not at the
\* start of its line, and lines that start with @@ without the range syntax.
OtherLines ==
    { <<>>,
      <<"+", "x">>,
      <<" ">> \o Header(1, 2, 1, 2, <<>>),
      <<"@", "@", " ", "x">>,
      <<"@", "@", " ", "-", "1", ",", "2", " ", "+", "1", ",", "2">>,
      <<"@", "@", " ", "-", ",", "2", " ", "+", "1", " ", "@", "@">>,
      <<"@", "@", " ", "-", "1", ",", "2", " ", "1", ",", "2", " ", "@", "@">>,
      <<"@">> \o Header(2, 1, 2, 1, <<"@">>),
      <<"@", "@", " ", "-", "0", "3", ",", "0", "2", " ", "+", "3", " ", "@", "@">> }

PatchLineSet == ValidHeaders \cup OtherLines

\* The lines of OtherLines that start with @@ and lack the range syntax.
MalformedLines ==
    { <<"@", "@", " ", "x">>,
      <<"@", "@", " ", "-", "1", ",", "2", " ", "+", "1", ",", "2">>,
      <<"@", "@", " ", "-", ",", "2", " ", "+", "1", " ", "@", "@">>,
      <<"@", "@", " ", "-", "1", ",", "2", " ", "1", ",", "2", " ", "@", "@">> }

\* Patches with a malformed header line between two well-formed ones.
MalformedBetweenSet ==
    {<<Header(1, 2, 2, 2, <<>>), m, Header(os, -1, os + 1, -1, <<>>)>> :
            m \in MalformedLines, os \in 1..MaxOldStart}

\* None, or the lines of a patch ('' is the patch whose one line is empty).
PatchSet ==
    {None} \cup (SeqUpTo(PatchLineSet, MaxPatchLines) \ {<<>>}) \cup MalformedBetweenSet

InitParse ==
    /\ pc = "call"
    /\ records = <<>>
    /\ labels_file = <<>>
    /\ labels_file_before = <<>>
    /\ existing_labels = <<>>
    /\ new_labels = <<>>
    /\ stats = <<>>
    /\ label_pos = 0
    /\ runs = 0
    /\ examples = <<>>
    /\ ratios = <<>>
    /\ by_pattern = <<>>
    /\ split_idx = 0
    /\ train = <<>>
    /\ val = <<>>
    /\ test = <<>>
    /\ args = <<>>
    /\ kept = <<>>
    /\ drop_reasons = <<>>
    /\ filter_idx = 0
    /\ call_pc = <<>>
    /\ call_hunks = <<>>
    /\ call_merged = <<>>
    /\ call_chunks = <<>>
    /\ local_file_record = <<>>
    /\ local_chunk_records = <<>>
    /\ file_records = <<>>
    /\ all_chunks = <<>>
    /\ record_idx = 0
    /\ processed = 0
    /\ skipped = 0
    /\ patch \in PatchSet
    /\ parsed = <<>>
    /\ max_gap = 0
    /\ hunks = <<>>
    /\ sorted_hunks = <<>>
    /\ merged = <<>>
    /\ idx = 0
    /\ file_record = <<>>
    /\ context_before = 0
    /\ context_after = 0
    /\ chunk_records = <<>>

\* One call of parse_patch_hunks(patch).
ParsePatchHunks ==
    /\ pc = "call"
    /\ parsed' = parse_patch_hunks(patch)
    /\ pc' = "done"
    /\ UNCHANGED <<patch, max_gap, mergeVars, chunkVars, datasetVars, copyVars, callVars,
                   filterVars, splitVars, labelVars>>

NextParse == ParsePatchHunks

SpecParse == InitParse /\ [][NextParse]_vars

\* ------------------------------------------------- the merge, step by step
\* The hunks [5,8) and [15,18), seven lines apart.
SevenApart == <<<<5, 8>>, <<15, 18>>>>

InitMerge ==
    /\ pc = "call"
    /\ records = <<>>
    /\ labels_file = <<>>
    /\ labels_file_before = <<>>
    /\ existing_labels = <<>>
    /\ new_labels = <<>>
    /\ stats = <<>>
    /\ label_pos = 0
    /\ runs = 0
    /\ examples = <<>>
    /\ ratios = <<>>
    /\ by_pattern = <<>>
    /\ split_idx = 0
    /\ train = <<>>
    /\ val = <<>>
    /\ test = <<>>
    /\ args = <<>>
    /\ kept = <<>>
    /\ drop_reasons = <<>>
    /\ filter_idx = 0
    /\ call_pc = <<>>
    /\ call_hunks = <<>>
    /\ call_merged = <<>>
    /\ call_chunks = <<>>
    /\ local_file_record = <<>>
    /\ local_chunk_records = <<>>
    /\ file_records = <<>>
    /\ all_chunks = <<>>
    /\ record_idx = 0
    /\ processed = 0
    /\ skipped = 0
    /\ \/ /\ hunks \in SeqUpTo(HunkSet, MaxHunks)
          /\ max_gap \in 0..MaxGap
       \/ /\ hunks = SevenApart
          /\ max_gap \in {5, 7, 10}
    /\ sorted_hunks = <<>>
    /\ merged = <<>>
    /\ idx = 0
    /\ patch = None
    /\ parsed = <<>>
    /\ file_record = <<>>
    /\ context_before = 0
    /\ context_after = 0
    /\ chunk_records = <<>>

\* Lines 252-256: the empty case returns at once; otherwise sort and open the
\* first region.
MergeBegin ==
    /\ pc = "call"
    /\ IF hunks = <<>>
       THEN /\ pc' = "done"
            /\ UNCHANGED <<sorted_hunks, merged, idx>>
       ELSE /\ sorted_hunks' = sorted_by_start(hunks)
            /\ merged' = <<sorted_by_start(hunks)[1]>>
            /\ idx' = 2
            /\ pc' = "loop"
    /\ UNCHANGED <<hunks, max_gap, parseVars, chunkVars, datasetVars, copyVars, callVars,
                   filterVars, splitVars, labelVars>>

\* Lines 258-264: one iteration of the scan.
MergeIterate ==
    /\ pc = "loop"
    /\ idx <= Len(sorted_hunks)
    /\ merged' = MergeStep(merged, sorted_hunks[idx], max_gap)
    /\ idx' = idx + 1
    /\ UNCHANGED <<pc, hunks, max_gap, sorted_hunks, parseVars, chunkVars, datasetVars, copyVars, callVars,
                   filterVars, splitVars, labelVars>>

\* Line 266: return merged.
MergeReturn ==
    /\ pc = "loop"
    /\ idx > Len(sorted_hunks)
    /\ pc' = "done"
    /\ UNCHANGED <<max_gap, mergeVars, parseVars, chunkVars, datasetVars, copyVars, callVars,
                   filterVars, splitVars, labelVars>>

NextMerge == MergeBegin \/ MergeIterate \/ MergeReturn

SpecMerge == InitMerge /\ [][NextMerge]_vars

\* --------------------------------------------- add_editable_region_markers
\* None where the other values are integers ('editable_region_start': None).
NoneInt == -1

START_MARKER == "<|editable_region_start|>"
END_MARKER == "<|editable_region_end|>"

\* `not s` for a str held as its lines of text: None or ''.
FalsyText(s) == s = None \/ s = <<"">>

\* '\n'.join(lines): the join of no line at all is the empty string.
join(lines) == IF lines = <<>> THEN <<"">> ELSE lines

\* s.split('\n'): the lines the str is held as.
split(s) == s

\* lines[a:b] of Python, the indices 0-based, a negative one counted from the end.
PySlice(lines, a, b) ==
    LET n == Len(lines)
        lo == IF a < 0 THEN Max(a + n, 0) ELSE Min(a, n)
        hi == IF b < 0 THEN Max(b + n, 0) ELSE Min(b, n)
    IN  IF lo >= hi THEN <<>> ELSE SubSeq(lines, lo + 1, hi)

\* Lines 303-304, mutants first.
RegionEndNoClamp(n, hunk_end, ca) == hunk_end + ca

RegionStartNoClamp(hunk_start, cb) == hunk_start - cb

RegionStartAfter(hunk_start, cb) == Max(1, hunk_start + cb)

RegionStart(hunk_start, cb) == Max(1, hunk_start - cb)

RegionEnd(n, hunk_end, ca) == Min(n, hunk_end + ca)

\* The loop in which the start marker takes the place of line region_start.
RECURSIVE MarkFromReplaceLine(_, _, _, _)
MarkFromReplaceLine(before_lines, i, region_start, region_end) ==
    IF i > Len(before_lines) THEN <<>>
    ELSE (IF i = region_start THEN <<START_MARKER>> ELSE <<before_lines[i]>>)
            \o (IF i = region_end THEN <<END_MARKER>> ELSE <<>>)
            \o MarkFromReplaceLine(before_lines, i + 1, region_start, region_end)

\* The loop that puts the end marker before line region_end.
RECURSIVE MarkFromEndBeforeLine(_, _, _, _)
MarkFromEndBeforeLine(before_lines, i, region_start, region_end) ==
    IF i > Len(before_lines) THEN <<>>
    ELSE (IF i = region_start THEN <<START_MARKER>> ELSE <<>>)
            \o (IF i = region_end THEN <<END_MARKER>> ELSE <<>>)
            \o <<before_lines[i]>>
            \o MarkFromEndBeforeLine(before_lines, i + 1, region_start, region_end)

\* Lines 306-312: the loop over enumerate(before_lines, start=1), from line i on.
RECURSIVE MarkFrom(_, _, _, _)
MarkFrom(before_lines, i, region_start, region_end) ==
    IF i > Len(before_lines) THEN <<>>
    ELSE (IF i = region_start THEN <<START_MARKER>> ELSE <<>>)
            \o <<before_lines[i]>>
            \o (IF i = region_end THEN <<END_MARKER>> ELSE <<>>)
            \o MarkFrom(before_lines, i + 1, region_start, region_end)

\* Lines 316-319.
TargetText(after_lines, region_start, region_end) ==
    IF region_start <= Len(after_lines) /\ region_end <= Len(after_lines)
    THEN join(PySlice(after_lines, region_start - 1, region_end))
    ELSE None

ChunkKeys ==
    {"chunk_id", "total_chunks_in_file", "is_multi_chunk_file", "editable_region_start",
     "editable_region_end", "model_input_text", "model_target_text"}

\* The record of an early return on which model_target_text is never set.
NotChunkableNoTarget(rec) ==
    [k \in DOMAIN rec \cup {"chunk_id", "total_chunks_in_file", "is_multi_chunk_file",
                            "model_input_text"} |->
        CASE k = "chunk_id" -> 0
          [] k = "total_chunks_in_file" -> 1
          [] k = "is_multi_chunk_file" -> FALSE
          [] k = "model_input_text" -> None
          [] OTHER -> rec[k]]

\* Lines 276-281 and 286-291: the five keys set on file_record itself.
NotChunkable(rec) ==
    [k \in DOMAIN rec \cup (ChunkKeys \ {"editable_region_start", "editable_region_end"}) |->
        CASE k = "chunk_id" -> 0
          [] k = "total_chunks_in_file" -> 1
          [] k = "is_multi_chunk_file" -> FALSE
          [] k = "model_input_text" -> None
          [] k = "model_target_text" -> None
          [] OTHER -> rec[k]]

\* The chunk of one merged hunk with chunk_id counted from 1.
ChunkRecordOneBased(rec, chunk_idx, hunk, total, before_lines, after_lines, cb, ca) ==
    LET region_start == RegionStart(hunk[1], cb)
        region_end == RegionEnd(Len(before_lines), hunk[2], ca)
    IN  [k \in DOMAIN rec \cup ChunkKeys |->
            CASE k = "chunk_id" -> chunk_idx + 1
              [] k = "total_chunks_in_file" -> total
              [] k = "is_multi_chunk_file" -> total > 1
              [] k = "editable_region_start" -> region_start
              [] k = "editable_region_end" -> region_end
              [] k = "model_input_text" ->
                    join(MarkFrom(before_lines, 1, region_start, region_end))
              [] k = "model_target_text" -> TargetText(after_lines, region_start, region_end)
              [] OTHER -> rec[k]]

\* Lines 301-327: the chunk of one merged hunk, a copy of file_record with the
\* seven chunk keys set.
ChunkRecord(rec, chunk_idx, hunk, total, before_lines, after_lines, cb, ca) ==
    LET region_start == RegionStart(hunk[1], cb)
        region_end == RegionEnd(Len(before_lines), hunk[2], ca)
    IN  [k \in DOMAIN rec \cup ChunkKeys |->
            CASE k = "chunk_id" -> chunk_idx
              [] k = "total_chunks_in_file" -> total
              [] k = "is_multi_chunk_file" -> total > 1
              [] k = "editable_region_start" -> region_start
              [] k = "editable_region_end" -> region_end
              [] k = "model_input_text" ->
                    join(MarkFrom(before_lines, 1, region_start, region_end))
              [] k = "model_target_text" -> TargetText(after_lines, region_start, region_end)
              [] OTHER -> rec[k]]

\* Lines 293-331: the chunks of the merged hunks.
ChunksOf(rec, parsed_hunks, cb, ca, gap) ==
    LET merged_hunks == merge_close_hunks(parsed_hunks, gap)
        before_lines == split(rec["before_content"])
        after_lines == IF ~FalsyText(rec["after_content"])
                       THEN split(rec["after_content"])
                       ELSE before_lines
    IN  [i \in 1..Len(merged_hunks) |->
            ChunkRecord(rec, i - 1, merged_hunks[i], Len(merged_hunks),
                        before_lines, after_lines, cb, ca)]

\* The call without the test of lines 285-291.
CallAddMarkersNoHunkCheck(rec, cb, ca, gap) ==
    IF Falsy(rec["patch"]) \/ FalsyText(rec["before_content"])
    THEN [returned |-> <<NotChunkable(rec)>>, file_record |-> NotChunkable(rec)]
    ELSE [returned |-> ChunksOf(rec, parse_patch_hunks(rec["patch"]), cb, ca, gap),
          file_record |-> rec]

\* One call: the list returned, and file_record as the call leaves it.  The
\* two early returns write to file_record and return it; the chunked path
\* writes to copies.
CallAddMarkers(rec, cb, ca, gap) ==
    IF Falsy(rec["patch"]) \/ FalsyText(rec["before_content"])
    THEN [returned |-> <<NotChunkable(rec)>>, file_record |-> NotChunkable(rec)]
    ELSE LET parsed_hunks == parse_patch_hunks(rec["patch"])
         IN  IF parsed_hunks = <<>>
             THEN [returned |-> <<NotChunkable(rec)>>, file_record |-> NotChunkable(rec)]
             ELSE [returned |-> ChunksOf(rec, parsed_hunks, cb, ca, gap),
                   file_record |-> rec]

add_editable_region_markers(rec, cb, ca, gap) == CallAddMarkers(rec, cb, ca, gap).returned

\* Lines 334-354 as a function of the list: the chunks of each record, in the
\* order of the records.
RECURSIVE add_markers_to_dataset(_, _, _, _)
add_markers_to_dataset(recs, cb, ca, gap) ==
    IF recs = <<>> THEN <<>>
    ELSE add_editable_region_markers(Head(recs), cb, ca, gap)
            \o add_markers_to_dataset(Tail(recs), cb, ca, gap)

\* ------------------------------------------- the copy in local_extract.py
\* The four functions as local_extract.py has them (lines 280-404), written
\* from that file; str methods, re, sorted, max and min are the library's.
RECURSIVE local_parse_lines(_, _, _)
local_parse_lines(lines, i, found) ==
    IF i > Len(lines) THEN found
    ELSE IF ~line_startswith(lines[i], <<"@", "@">>)
         THEN local_parse_lines(lines, i + 1, found)
         ELSE LET match == re_search(lines[i])
              IN  IF match = <<>>
                  THEN local_parse_lines(lines, i + 1, found)
                  ELSE LET old_start == int(match[1])
                           old_count == IF match[2] # <<>> THEN int(match[2]) ELSE 1
                       IN  local_parse_lines(lines, i + 1,
                                             Append(found, <<old_start, old_start + old_count>>))

local_parse_patch_hunks(p) ==
    IF p = None \/ p = <<<<>>>> THEN <<>> ELSE local_parse_lines(split(p), 1, <<>>)

RECURSIVE local_merge_from(_, _, _, _)
local_merge_from(found, s, i, gap) ==
    IF i > Len(s) THEN found
    ELSE LET last == found[Len(found)]
             current == s[i]
         IN  IF current[1] - last[2] <= gap
             THEN local_merge_from(SubSeq(found, 1, Len(found) - 1)
                                        \o <<<<last[1], Max(last[2], current[2])>>>>,
                                   s, i + 1, gap)
             ELSE local_merge_from(found \o <<current>>, s, i + 1, gap)

local_merge_close_hunks(h, gap) ==
    IF Len(h) = 0 THEN <<>>
    ELSE local_merge_from(<<sorted_by_start(h)[1]>>, sorted_by_start(h), 2, gap)

\* Lines 325-331 and 335-341 of local_extract.py.
local_not_chunkable(rec) ==
    [k \in DOMAIN rec \cup {"chunk_id", "total_chunks_in_file", "is_multi_chunk_file",
                            "model_input_text", "model_target_text"} |->
        IF k = "chunk_id" THEN 0
        ELSE IF k = "total_chunks_in_file" THEN 1
        ELSE IF k = "is_multi_chunk_file" THEN FALSE
        ELSE IF k \in {"model_input_text", "model_target_text"} THEN None
        ELSE rec[k]]

\* Lines 356-362 of local_extract.py.
RECURSIVE local_marked_lines(_, _, _, _)
local_marked_lines(before_lines, region_start, region_end, n) ==
    IF n = 0 THEN <<>>
    ELSE local_marked_lines(before_lines, region_start, region_end, n - 1)
            \o (IF n = region_start THEN <<"<|editable_region_start|>">> ELSE <<>>)
            \o <<before_lines[n]>>
            \o (IF n = region_end THEN <<"<|editable_region_end|>">> ELSE <<>>)

\* Lines 350-379 of local_extract.py.
local_chunk(rec, chunk_idx, hunk, total, before_lines, after_lines, cb, ca) ==
    LET region_start == Max(1, hunk[1] - cb)
        region_end == Min(Len(before_lines), hunk[2] + ca)
        model_input_text ==
            join(local_marked_lines(before_lines, region_start, region_end, Len(before_lines)))
        model_target_text ==
            IF region_start <= Len(after_lines) /\ region_end <= Len(after_lines)
            THEN join(PySlice(after_lines, region_start - 1, region_end))
            ELSE None
        chunk == [chunk_id |-> chunk_idx,
                  total_chunks_in_file |-> total,
                  is_multi_chunk_file |-> total > 1,
                  editable_region_start |-> region_start,
                  editable_region_end |-> region_end,
                  model_input_text |-> model_input_text,
                  model_target_text |-> model_target_text]
    IN  [k \in DOMAIN rec \cup DOMAIN chunk |-> IF k \in DOMAIN chunk THEN chunk[k] ELSE rec[k]]

\* Lines 319-381 of local_extract.py: the list returned and file_record as the
\* call leaves it.
local_call(rec, cb, ca, gap) ==
    LET p == rec["patch"]
        before_content == rec["before_content"]
        after_content == rec["after_content"]
    IN  IF (p = None \/ p = <<<<>>>>) \/ (before_content = None \/ before_content = <<"">>)
        THEN [returned |-> <<local_not_chunkable(rec)>>, file_record |-> local_not_chunkable(rec)]
        ELSE IF local_parse_patch_hunks(p) = <<>>
        THEN [returned |-> <<local_not_chunkable(rec)>>, file_record |-> local_not_chunkable(rec)]
        ELSE LET merged_hunks == local_merge_close_hunks(local_parse_patch_hunks(p), gap)
                 before_lines == split(before_content)
                 after_lines == IF after_content = None \/ after_content = <<"">>
                                THEN before_lines ELSE split(after_content)
             IN  [returned |->
                     [i \in 1..Len(merged_hunks) |->
                         local_chunk(rec, i - 1, merged_hunks[i], Len(merged_hunks),
                                     before_lines, after_lines, cb, ca)],
                  file_record |-> rec]

local_add_editable_region_markers(rec, cb, ca, gap) == local_call(rec, cb, ca, gap).returned

\* Lines 384-404 of local_extract.py.
RECURSIVE local_all_chunks(_, _, _, _, _)
local_all_chunks(recs, i, cb, ca, gap) ==
    IF i = 0 THEN <<>>
    ELSE local_all_chunks(recs, i - 1, cb, ca, gap)
            \o local_add_editable_region_markers(recs[i], cb, ca, gap)

local_add_markers_to_dataset(recs, cb, ca, gap) == local_all_chunks(recs, Len(recs), cb, ca, gap)

\* ---------------------------------------------------------- records to chunk
\* The text of n lines p1 .. pn.
Text(p, n) == [i \in 1..n |-> p \o ToString(i)]

BeforeSet ==
    {None, <<"">>} \cup {Text("b", n) : n \in 1..MaxLines}
        \cup {<<"b1", START_MARKER, END_MARKER>>}

AfterSet == {None, <<"">>} \cup {Text("a", n) : n \in 1..MaxLines}

\* Headers of hunks inside and beyond the files above, an empty hunk at line 0,
\* and a line with a malformed header.
ChunkLineSet ==
    {Header(os, -1, os, -1, <<>>) : os \in 1..(MaxOldStart + 2)}
        \cup {Header(0, 0, 1, 2, <<>>), Header(1, 2, 1, 3, <<>>), <<"@", "@", " ", "x">>}

ChunkPatchSet == {None, <<<<>>>>} \cup (SeqUpTo(ChunkLineSet, MaxChunkHunks) \ {<<>>})

\* extract_file_level_records, lines 202-222: the keys the chunker reads and
\* the two region keys, which start as None.
FileRecord(p, before, after) ==
    [patch |-> p, before_content |-> before, after_content |-> after,
     editable_region_start |-> NoneInt, editable_region_end |-> NoneInt]

\* A file with the single hunk [10,12), longer and shorter than line 17.
SingleHunkRecordSet ==
    {FileRecord(<<Header(10, 2, 10, 2, <<>>)>>, Text("b", n), Text("a", n)) : n \in {12, 20}}

InitChunk ==
    /\ pc = "call"
    /\ records = <<>>
    /\ labels_file = <<>>
    /\ labels_file_before = <<>>
    /\ existing_labels = <<>>
    /\ new_labels = <<>>
    /\ stats = <<>>
    /\ label_pos = 0
    /\ runs = 0
    /\ examples = <<>>
    /\ ratios = <<>>
    /\ by_pattern = <<>>
    /\ split_idx = 0
    /\ train = <<>>
    /\ val = <<>>
    /\ test = <<>>
    /\ args = <<>>
    /\ kept = <<>>
    /\ drop_reasons = <<>>
    /\ filter_idx = 0
    /\ call_pc = <<>>
    /\ call_hunks = <<>>
    /\ call_merged = <<>>
    /\ call_chunks = <<>>
    /\ local_file_record = <<>>
    /\ local_chunk_records = <<>>
    /\ file_records = <<>>
    /\ all_chunks = <<>>
    /\ record_idx = 0
    /\ processed = 0
    /\ skipped = 0
    /\ \/ /\ \E p \in ChunkPatchSet, b \in BeforeSet, a \in AfterSet :
                    file_record = FileRecord(p, b, a)
          /\ context_before \in {0, MaxContext}
          /\ context_after \in {0, MaxContext}
          /\ max_gap \in {0, MaxGap}
       \/ /\ file_record \in SingleHunkRecordSet
          /\ context_before = 1
          /\ context_after = 5
          /\ max_gap = 10
    /\ chunk_records = <<>>
    /\ patch = None
    /\ parsed = <<>>
    /\ hunks = <<>>
    /\ sorted_hunks = <<>>
    /\ merged = <<>>
    /\ idx = 0

\* One call of add_editable_region_markers(file_record, ...).
AddEditableRegionMarkers ==
    /\ pc = "call"
    /\ LET call == CallAddMarkers(file_record, context_before, context_after, max_gap)
       IN  /\ chunk_records' = call.returned
           /\ file_record' = call.file_record
    /\ pc' = "done"
    /\ UNCHANGED <<context_before, context_after, max_gap, mergeVars, parseVars,
                 datasetVars, copyVars, callVars,
                   filterVars, splitVars, labelVars>>

NextChunk == AddEditableRegionMarkers

SpecChunk == InitChunk /\ [][NextChunk]_vars

\* ------------------------------------------------- add_markers_to_dataset
\* Records of the kinds the chunker tells apart: no patch, no before-content, a
\* patch without a header that parses, one hunk, two hunks one line apart
\* (merged or not, by max_gap), and one hunk with no after-content.
DatasetRecordSet ==
    { FileRecord(None, Text("b", 1), Text("a", 1)),
      FileRecord(<<Header(1, -1, 1, -1, <<>>)>>, None, Text("a", 1)),
      FileRecord(<<<<"@", "@", " ", "x">>>>, Text("b", 1), Text("a", 1)),
      FileRecord(<<Header(1, -1, 1, -1, <<>>)>>, Text("b", 3), Text("a", 3)),
      FileRecord(<<Header(3, -1, 3, -1, <<>>), Header(1, -1, 1, -1, <<>>)>>,
                 Text("b", 3), Text("a", 3)),
      FileRecord(<<Header(2, -1, 2, -1, <<>>)>>, Text("b", 3), None) }

\* A record with its 'file_path' key (lines 202-222): the i-th file is "f<i>".
WithFilePath(rec, i) ==
    [k \in DOMAIN rec \cup {"file_path"} |->
        IF k = "file_path" THEN "f" \o ToString(i) ELSE rec[k]]

\* The lists of up to MaxRecords records, each of its own file.
FileRecordsSet ==
    UNION {{[i \in 1..n |-> WithFilePath(rs[i], i)] : rs \in [1..n -> DatasetRecordSet]} :
                n \in 0..MaxRecords}

InitDataset ==
    /\ pc = "records"
    /\ records = <<>>
    /\ labels_file = <<>>
    /\ labels_file_before = <<>>
    /\ existing_labels = <<>>
    /\ new_labels = <<>>
    /\ stats = <<>>
    /\ label_pos = 0
    /\ runs = 0
    /\ examples = <<>>
    /\ ratios = <<>>
    /\ by_pattern = <<>>
    /\ split_idx = 0
    /\ train = <<>>
    /\ val = <<>>
    /\ test = <<>>
    /\ args = <<>>
    /\ kept = <<>>
    /\ drop_reasons = <<>>
    /\ filter_idx = 0
    /\ call_pc = <<>>
    /\ call_hunks = <<>>
    /\ call_merged = <<>>
    /\ call_chunks = <<>>
    /\ local_file_record = <<>>
    /\ local_chunk_records = <<>>
    /\ file_records \in FileRecordsSet
    /\ context_before \in {0, MaxContext}
    /\ context_after \in {0, MaxContext}
    /\ max_gap \in {0, MaxGap}
    /\ all_chunks = <<>>
    /\ record_idx = 1
    /\ processed = 0
    /\ skipped = 0
    /\ file_record = <<>>
    /\ chunk_records = <<>>
    /\ patch = None
    /\ parsed = <<>>
    /\ hunks = <<>>
    /\ sorted_hunks = <<>>
    /\ merged = <<>>
    /\ idx = 0

\* Lines 345-349: the chunks counted as processed, those with a model_input_text
\* that is neither None nor ''.
CountProcessed(chunks) ==
    Cardinality({j \in 1..Len(chunks) : ~FalsyText(chunks[j]["model_input_text"])})

HasInputText(chunk) == ~FalsyText(chunk["model_input_text"])

\* The iteration that appends only the chunks it counts as processed.
DatasetRecordDropSkipped ==
    /\ pc = "records"
    /\ record_idx <= Len(file_records)
    /\ LET call == CallAddMarkers(file_records[record_idx], context_before,
                                  context_after, max_gap)
       IN  /\ file_records' = [file_records EXCEPT ![record_idx] = call.file_record]
           /\ all_chunks' = all_chunks \o SelectSeq(call.returned, HasInputText)
           /\ processed' = processed + CountProcessed(call.returned)
           /\ skipped' = skipped + (Len(call.returned) - CountProcessed(call.returned))
    /\ record_idx' = record_idx + 1
    /\ UNCHANGED <<pc, max_gap, context_before, context_after, file_record, chunk_records,
                   mergeVars, parseVars, copyVars, callVars,
                   filterVars, splitVars, labelVars>>

\* Lines 342-351: one iteration of the loop over file_records: the call on the
\* record, which may write to it, and the loop over the chunks returned.
DatasetRecord ==
    /\ pc = "records"
    /\ record_idx <= Len(file_records)
    /\ LET call == CallAddMarkers(file_records[record_idx], context_before,
                                  context_after, max_gap)
       IN  /\ file_records' = [file_records EXCEPT ![record_idx] = call.file_record]
           /\ all_chunks' = all_chunks \o call.returned
           /\ processed' = processed + CountProcessed(call.returned)
           /\ skipped' = skipped + (Len(call.returned) - CountProcessed(call.returned))
    /\ record_idx' = record_idx + 1
    /\ UNCHANGED <<pc, max_gap, context_before, context_after, file_record, chunk_records,
                   mergeVars, parseVars, copyVars, callVars,
                   filterVars, splitVars, labelVars>>

\* Lines 353-354: return all_chunks.
DatasetReturn ==
    /\ pc = "records"
    /\ record_idx > Len(file_records)
    /\ pc' = "done"
    /\ UNCHANGED <<max_gap, mergeVars, parseVars, chunkVars, datasetVars, copyVars, callVars,
                   filterVars, splitVars, labelVars>>

NextDataset == DatasetRecord \/ DatasetReturn

SpecDataset == InitDataset /\ [][NextDataset]_vars

\* -------------------------------------------- the two copies side by side
\* Patches of up to two of the lines above.
CopyPatchSet == {None, <<<<>>>>} \cup (SeqUpTo(ChunkLineSet, 2) \ {<<>>})

\* Each copy is given the same record, as a dict of its own.
InitCopies ==
    /\ pc = "call"
    /\ records = <<>>
    /\ labels_file = <<>>
    /\ labels_file_before = <<>>
    /\ existing_labels = <<>>
    /\ new_labels = <<>>
    /\ stats = <<>>
    /\ label_pos = 0
    /\ runs = 0
    /\ examples = <<>>
    /\ ratios = <<>>
    /\ by_pattern = <<>>
    /\ split_idx = 0
    /\ train = <<>>
    /\ val = <<>>
    /\ test = <<>>
    /\ args = <<>>
    /\ kept = <<>>
    /\ drop_reasons = <<>>
    /\ filter_idx = 0
    /\ call_pc = <<>>
    /\ call_hunks = <<>>
    /\ call_merged = <<>>
    /\ call_chunks = <<>>
    /\ \E p \in CopyPatchSet, b \in BeforeSet, a \in {None, <<"">>, Text("a", MaxLines)} :
            file_record = FileRecord(p, b, a)
    /\ local_file_record = file_record
    /\ context_before \in {0, MaxContext}
    /\ context_after \in {0, MaxContext}
    /\ max_gap \in {0, MaxGap}
    /\ chunk_records = <<>>
    /\ local_chunk_records = <<>>
    /\ file_records = <<>>
    /\ all_chunks = <<>>
    /\ record_idx = 0
    /\ processed = 0
    /\ skipped = 0
    /\ patch = None
    /\ parsed = <<>>
    /\ hunks = <<>>
    /\ sorted_hunks = <<>>
    /\ merged = <<>>
    /\ idx = 0

\* The call of extract_dataset.py's add_editable_region_markers(file_record, ...).
ExtractCall ==
    /\ pc \in {"call", "local_done"}
    /\ LET call == CallAddMarkers(file_record, context_before, context_after, max_gap)
       IN  /\ chunk_records' = call.returned
           /\ file_record' = call.file_record
    /\ pc' = IF pc = "call" THEN "extract_done" ELSE "done"
    /\ UNCHANGED <<context_before, context_after, max_gap, mergeVars, parseVars,
                   datasetVars, copyVars, callVars,
                   filterVars, splitVars, labelVars>>

\* The call of local_extract.py's add_editable_region_markers(local_file_record, ...).
LocalCall ==
    /\ pc \in {"call", "extract_done"}
    /\ LET call == local_call(local_file_record, context_before, context_after, max_gap)
       IN  /\ local_chunk_records' = call.returned
           /\ local_file_record' = call.file_record
    /\ pc' = IF pc = "call" THEN "local_done" ELSE "done"
    /\ UNCHANGED <<max_gap, mergeVars, parseVars, chunkVars, datasetVars, callVars,
                   filterVars, splitVars, labelVars>>

NextCopies == ExtractCall \/ LocalCall

SpecCopies == InitCopies /\ [][NextCopies]_vars

\* ------------------------------------- calls on several records, interleaved
\* One call of add_editable_region_markers per record of file_records, each
\* with its own locals, the steps of the calls taken in any order.
InitCalls ==
    /\ pc = "calls"
    /\ records = <<>>
    /\ labels_file = <<>>
    /\ labels_file_before = <<>>
    /\ existing_labels = <<>>
    /\ new_labels = <<>>
    /\ stats = <<>>
    /\ label_pos = 0
    /\ runs = 0
    /\ examples = <<>>
    /\ ratios = <<>>
    /\ by_pattern = <<>>
    /\ split_idx = 0
    /\ train = <<>>
    /\ val = <<>>
    /\ test = <<>>
    /\ args = <<>>
    /\ kept = <<>>
    /\ drop_reasons = <<>>
    /\ filter_idx = 0
    /\ file_records \in FileRecordsSet
    /\ context_before \in {0, MaxContext}
    /\ context_after = MaxContext
    /\ max_gap \in {0, MaxGap}
    /\ call_pc = [i \in 1..Len(file_records) |-> "enter"]
    /\ call_hunks = [i \in 1..Len(file_records) |-> <<>>]
    /\ call_merged = [i \in 1..Len(file_records) |-> <<>>]
    /\ call_chunks = [i \in 1..Len(file_records) |-> <<>>]
    /\ local_file_record = <<>>
    /\ local_chunk_records = <<>>
    /\ all_chunks = <<>>
    /\ record_idx = 0
    /\ processed = 0
    /\ skipped = 0
    /\ file_record = <<>>
    /\ chunk_records = <<>>
    /\ patch = None
    /\ parsed = <<>>
    /\ hunks = <<>>
    /\ sorted_hunks = <<>>
    /\ merged = <<>>
    /\ idx = 0

CallFrame ==
    <<pc, max_gap, mergeVars, parseVars, chunkVars, all_chunks, record_idx, processed,
      skipped, copyVars, filterVars, splitVars,
      labelVars>>

\* Lines 271-281: the call on record i reads the record; without a patch or a
\* before-content it writes to the record and returns it.
CallEnter(i) ==
    /\ call_pc[i] = "enter"
    /\ IF Falsy(file_records[i]["patch"]) \/ FalsyText(file_records[i]["before_content"])
       THEN /\ file_records' = [file_records EXCEPT ![i] = NotChunkable(file_records[i])]
            /\ call_chunks' = [call_chunks EXCEPT ![i] = <<NotChunkable(file_records[i])>>]
            /\ call_pc' = [call_pc EXCEPT ![i] = "done"]
       ELSE /\ call_pc' = [call_pc EXCEPT ![i] = "parse"]
            /\ UNCHANGED <<file_records, call_chunks>>
    /\ UNCHANGED <<call_hunks, call_merged, CallFrame>>

\* Lines 283-291: parse_patch_hunks, and the return when it finds no hunk.
CallParse(i) ==
    /\ call_pc[i] = "parse"
    /\ LET found == parse_patch_hunks(file_records[i]["patch"])
       IN  /\ call_hunks' = [call_hunks EXCEPT ![i] = found]
           /\ IF found = <<>>
              THEN /\ file_records' = [file_records EXCEPT ![i] = NotChunkable(file_records[i])]
                   /\ call_chunks' = [call_chunks EXCEPT ![i] = <<NotChunkable(file_records[i])>>]
                   /\ call_pc' = [call_pc EXCEPT ![i] = "done"]
              ELSE /\ call_pc' = [call_pc EXCEPT ![i] = "merge"]
                   /\ UNCHANGED <<file_records, call_chunks>>
    /\ UNCHANGED <<call_merged, CallFrame>>

\* Line 293: merge_close_hunks.
CallMerge(i) ==
    /\ call_pc[i] = "merge"
    /\ call_merged' = [call_merged EXCEPT ![i] = merge_close_hunks(call_hunks[i], max_gap)]
    /\ call_pc' = [call_pc EXCEPT ![i] = "chunk"]
    /\ UNCHANGED <<file_records, call_hunks, call_chunks, CallFrame>>

\* The iteration of lines 300-329 that numbers the chunk by the chunks of all
\* the calls.
CallChunkSharedCount(i) ==
    /\ call_pc[i] = "chunk"
    /\ Len(call_chunks[i]) < Len(call_merged[i])
    /\ LET rec == file_records[i]
           before_lines == split(rec["before_content"])
           after_lines == IF ~FalsyText(rec["after_content"])
                          THEN split(rec["after_content"])
                          ELSE before_lines
           chunk_idx == Len(call_chunks[1]) + Len(call_chunks[Len(call_chunks)])
       IN  call_chunks' =
                [call_chunks EXCEPT ![i] =
                    Append(@, ChunkRecord(rec, chunk_idx, call_merged[i][Len(call_chunks[i]) + 1],
                                          Len(call_merged[i]), before_lines, after_lines,
                                          context_before, context_after))]
    /\ UNCHANGED <<file_records, call_pc, call_hunks, call_merged, CallFrame>>

\* Lines 300-329: one iteration of the loop over the merged hunks, which
\* copies the record and appends the chunk.
CallChunk(i) ==
    /\ call_pc[i] = "chunk"
    /\ Len(call_chunks[i]) < Len(call_merged[i])
    /\ LET rec == file_records[i]
           before_lines == split(rec["before_content"])
           after_lines == IF ~FalsyText(rec["after_content"])
                          THEN split(rec["after_content"])
                          ELSE before_lines
           chunk_idx == Len(call_chunks[i])
       IN  call_chunks' =
                [call_chunks EXCEPT ![i] =
                    Append(@, ChunkRecord(rec, chunk_idx, call_merged[i][chunk_idx + 1],
                                          Len(call_merged[i]), before_lines, after_lines,
                                          context_before, context_after))]
    /\ UNCHANGED <<file_records, call_pc, call_hunks, call_merged, CallFrame>>

\* Line 331: return chunk_records.
CallReturn(i) ==
    /\ call_pc[i] = "chunk"
    /\ Len(call_chunks[i]) = Len(call_merged[i])
    /\ call_pc' = [call_pc EXCEPT ![i] = "done"]
    /\ UNCHANGED <<file_records, call_hunks, call_merged, call_chunks, CallFrame>>

NextCalls ==
    \E i \in 1..Len(file_records) :
        \/ CallEnter(i)
        \/ CallParse(i)
        \/ CallMerge(i)
        \/ CallChunk(i)
        \/ CallReturn(i)

SpecCalls == InitCalls /\ [][NextCalls]_vars

\* --------------------------------------------- filter_dataset.should_keep
\* record.get(key) for a key that holds an int: None when the key is missing.
get(record, key) == IF key \in DOMAIN record THEN record[key] ELSE NoneInt

\* filter_dataset.py, lines 73-81.
compute_total_changes(record) ==
    LET total_changes == get(record, "total_changes")
        added == get(record, "lines_added")
        deleted == get(record, "lines_deleted")
    IN  IF total_changes # NoneInt THEN total_changes
        ELSE IF added = NoneInt \/ deleted = NoneInt THEN NoneInt
        ELSE added + deleted

\* should_keep without the test of the chunk count.
DropReasonNoChunkTest(record, a) ==
    LET total_changes == compute_total_changes(record)
        files_in_commit == get(record, "total_files_in_commit")
        chunks == get(record, "total_chunks_in_file")
    IN  IF total_changes = NoneInt THEN "missing_line_stats"
        ELSE IF total_changes > a.max_total_changes THEN "too_many_lines_changed"
        ELSE IF files_in_commit = NoneInt THEN "missing_file_count"
        ELSE IF files_in_commit > a.max_files_per_commit THEN "multi_file_commit"
        ELSE IF chunks = NoneInt THEN "missing_chunk_count"
        ELSE "keep"

\* filter_dataset.py, lines 84-110: the key of drop_counter that should_keep
\* counts the record under, or "keep" when it returns True.
DropReason(record, a) ==
    LET total_changes == compute_total_changes(record)
        files_in_commit == get(record, "total_files_in_commit")
        chunks == get(record, "total_chunks_in_file")
    IN  IF total_changes = NoneInt THEN "missing_line_stats"
        ELSE IF total_changes > a.max_total_changes THEN "too_many_lines_changed"
        ELSE IF files_in_commit = NoneInt THEN "missing_file_count"
        ELSE IF files_in_commit > a.max_files_per_commit THEN "multi_file_commit"
        ELSE IF chunks = NoneInt THEN "missing_chunk_count"
        ELSE IF chunks < a.min_chunks_per_file THEN "single_chunk_file"
        ELSE "keep"

should_keep(record, a) == DropReason(record, a) = "keep"

\* The defaults of --max-total-changes, --max-files-per-commit and
\* --min-chunks-per-file.
DefaultMaxTotalChanges == 20
DefaultMaxFilesPerCommit == 1
DefaultMinChunksPerFile == 2

\* The arguments: the defaults, and a --min-chunks-per-file of 1 and of 3.
ArgsSet ==
    {[max_total_changes |-> DefaultMaxTotalChanges,
      max_files_per_commit |-> DefaultMaxFilesPerCommit,
      min_chunks_per_file |-> m] : m \in {1, DefaultMinChunksPerFile, 3}}

\* A record with the statistics of its commit (extract_dataset.py, lines
\* 208-215): the lines added and deleted, their sum, and the number of files.
WithStats(rec, added, deleted, files) ==
    [k \in DOMAIN rec \cup {"lines_added", "lines_deleted", "total_changes",
                            "total_files_in_commit"} |->
        CASE k = "lines_added" -> added
          [] k = "lines_deleted" -> deleted
          [] k = "total_changes" -> added + deleted
          [] k = "total_files_in_commit" -> files
          [] OTHER -> rec[k]]

\* Records without a patch, of one hunk and of two hunks (two chunks, or one
\* when max_gap merges them), of a small and of a large change, of a commit of
\* one file and of two.
FilterRecordSet ==
    {WithStats(r, added, 1, files) :
        r \in { FileRecord(None, Text("b", 1), Text("a", 1)),
                FileRecord(<<Header(1, -1, 1, -1, <<>>)>>, Text("b", 3), Text("a", 3)),
                FileRecord(<<Header(3, -1, 3, -1, <<>>), Header(1, -1, 1, -1, <<>>)>>,
                           Text("b", 3), Text("a", 3)) },
        added \in {1, DefaultMaxTotalChanges},
        files \in {1, 2}}

FilterRecordsSet ==
    UNION {{[i \in 1..n |-> WithFilePath(rs[i], i)] : rs \in [1..n -> FilterRecordSet]} :
                n \in 0..MaxRecords}

InitFilter ==
    /\ pc = "markers"
    /\ records = <<>>
    /\ labels_file = <<>>
    /\ labels_file_before = <<>>
    /\ existing_labels = <<>>
    /\ new_labels = <<>>
    /\ stats = <<>>
    /\ label_pos = 0
    /\ runs = 0
    /\ examples = <<>>
    /\ ratios = <<>>
    /\ by_pattern = <<>>
    /\ split_idx = 0
    /\ train = <<>>
    /\ val = <<>>
    /\ test = <<>>
    /\ file_records \in FilterRecordsSet
    /\ args \in ArgsSet
    /\ context_before = 0
    /\ context_after = MaxContext
    /\ max_gap \in {0, MaxGap}
    /\ all_chunks = <<>>
    /\ kept = <<>>
    /\ drop_reasons = [r \in {} |-> 0]
    /\ filter_idx = 0
    /\ record_idx = 0
    /\ processed = 0
    /\ skipped = 0
    /\ call_pc = <<>>
    /\ call_hunks = <<>>
    /\ call_merged = <<>>
    /\ call_chunks = <<>>
    /\ local_file_record = <<>>
    /\ local_chunk_records = <<>>
    /\ file_record = <<>>
    /\ chunk_records = <<>>
    /\ patch = None
    /\ parsed = <<>>
    /\ hunks = <<>>
    /\ sorted_hunks = <<>>
    /\ merged = <<>>
    /\ idx = 0

\* extract_dataset.py, lines 334-354: the chunks of the records, which
\* filter_dataset.main then loads (lines 68-70, 121).
FilterLoad ==
    /\ pc = "markers"
    /\ all_chunks' = add_markers_to_dataset(file_records, context_before, context_after,
                                            max_gap)
    /\ filter_idx' = 1
    /\ pc' = "filter"
    /\ UNCHANGED <<max_gap, mergeVars, parseVars, chunkVars, file_records, record_idx,
                   processed, skipped, copyVars, callVars, args, kept, drop_reasons, splitVars, labelVars>>

\* filter_dataset.py, lines 124-126: one iteration of main's loop, should_keep
\* counting the record it drops.
FilterRecord ==
    /\ pc = "filter"
    /\ filter_idx <= Len(all_chunks)
    /\ LET record == all_chunks[filter_idx]
           reason == DropReason(record, args)
       IN  IF reason = "keep"
           THEN /\ kept' = Append(kept, record)
                /\ UNCHANGED drop_reasons
           ELSE /\ drop_reasons' =
                        [r \in DOMAIN drop_reasons \cup {reason} |->
                            IF r = reason
                            THEN (IF r \in DOMAIN drop_reasons THEN drop_reasons[r] ELSE 0) + 1
                            ELSE drop_reasons[r]]
                /\ UNCHANGED kept
    /\ filter_idx' = filter_idx + 1
    /\ UNCHANGED <<pc, max_gap, mergeVars, parseVars, chunkVars, datasetVars, copyVars,
                   callVars, args, splitVars, labelVars>>

\* filter_dataset.py, line 128: the loop is over, kept is written.
FilterDone ==
    /\ pc = "filter"
    /\ filter_idx > Len(all_chunks)
    /\ pc' = "done"
    /\ UNCHANGED <<max_gap, mergeVars, parseVars, chunkVars, datasetVars, copyVars,
                   callVars, filterVars, splitVars, labelVars>>

NextFilter == FilterLoad \/ FilterRecord \/ FilterDone

SpecFilter == InitFilter /\ [][NextFilter]_vars

\* ------------------------------------- prepare_training_data.create_splits
\* int(n * ratio) for a ratio num/den whose product with n is exact in floating
\* point (0.8, 0.1, 0.5, 0.25 for the n of the model).
IntOfProduct(n, ratio) == (n * ratio[1]) \div ratio[2]

\* The orders random.shuffle can leave a list in: all of them.
Shuffles(list) ==
    {[i \in 1..Len(list) |-> list[f[i]]] :
        f \in {g \in [1..Len(list) -> 1..Len(list)] :
                    \A i, j \in 1..Len(list) : i # j => g[i] # g[j]}}

\* The examples: the i-th is example i, of one of two patterns.
ExamplesSet ==
    UNION {{[i \in 1..n |-> [id |-> i, pattern_type |-> ps[i]]] : ps \in [1..n -> {"p", "q"}]} :
                n \in 0..MaxExamples}

\* The default ratios 0.8, 0.1, 0.1, and two others.
RatiosSet ==
    { [train_ratio |-> <<8, 10>>, val_ratio |-> <<1, 10>>, test_ratio |-> <<1, 10>>],
      [train_ratio |-> <<1, 2>>, val_ratio |-> <<1, 4>>, test_ratio |-> <<1, 4>>],
      [train_ratio |-> <<1, 4>>, val_ratio |-> <<1, 2>>, test_ratio |-> <<1, 4>>] }

InitSplits ==
    /\ pc = "group"
    /\ records = <<>>
    /\ labels_file = <<>>
    /\ labels_file_before = <<>>
    /\ existing_labels = <<>>
    /\ new_labels = <<>>
    /\ stats = <<>>
    /\ label_pos = 0
    /\ runs = 0
    /\ examples \in ExamplesSet
    /\ ratios \in RatiosSet
    /\ by_pattern = <<>>
    /\ split_idx = 0
    /\ train = <<>>
    /\ val = <<>>
    /\ test = <<>>
    /\ args = <<>>
    /\ kept = <<>>
    /\ drop_reasons = <<>>
    /\ filter_idx = 0
    /\ file_records = <<>>
    /\ all_chunks = <<>>
    /\ record_idx = 0
    /\ processed = 0
    /\ skipped = 0
    /\ call_pc = <<>>
    /\ call_hunks = <<>>
    /\ call_merged = <<>>
    /\ call_chunks = <<>>
    /\ local_file_record = <<>>
    /\ local_chunk_records = <<>>
    /\ file_record = <<>>
    /\ chunk_records = <<>>
    /\ context_before = 0
    /\ context_after = 0
    /\ max_gap = 0
    /\ patch = None
    /\ parsed = <<>>
    /\ hunks = <<>>
    /\ sorted_hunks = <<>>
    /\ merged = <<>>
    /\ idx = 0

SplitFrame ==
    <<max_gap, mergeVars, parseVars, chunkVars, datasetVars, copyVars, callVars, filterVars,
      labelVars>>

\* Lines 76-81: the dict after the examples from position i on are added, its
\* items <<pattern, list>> in insertion order.
RECURSIVE GroupFrom(_, _, _)
GroupFrom(items, exs, i) ==
    IF i > Len(exs) THEN items
    ELSE LET pattern == exs[i]["pattern_type"]
         IN  IF \E k \in 1..Len(items) : items[k][1] = pattern
             THEN GroupFrom([k \in 1..Len(items) |->
                                IF items[k][1] = pattern
                                THEN <<pattern, Append(items[k][2], exs[i])>>
                                ELSE items[k]],
                            exs, i + 1)
             ELSE GroupFrom(Append(items, <<pattern, <<exs[i]>>>>), exs, i + 1)

\* Lines 75-83: group the examples by pattern.
SplitGroup ==
    /\ pc = "group"
    /\ by_pattern' = GroupFrom(<<>>, examples, 1)
    /\ split_idx' = 1
    /\ pc' = "split"
    /\ UNCHANGED <<examples, ratios, train, val, test, SplitFrame>>

\* The iteration that gives test int(n * test_ratio) examples.
SplitPatternTestRatio ==
    /\ pc = "split"
    /\ split_idx <= Len(by_pattern)
    /\ \E pattern_examples \in Shuffles(by_pattern[split_idx][2]) :
            LET n == Len(pattern_examples)
                n_train == IntOfProduct(n, ratios.train_ratio)
                n_val == IntOfProduct(n, ratios.val_ratio)
                n_test == IntOfProduct(n, ratios.test_ratio)
            IN  /\ by_pattern' = [by_pattern EXCEPT ![split_idx][2] = pattern_examples]
                /\ train' = train \o PySlice(pattern_examples, 0, n_train)
                /\ val' = val \o PySlice(pattern_examples, n_train, n_train + n_val)
                /\ test' = test \o PySlice(pattern_examples, n_train + n_val,
                                           n_train + n_val + n_test)
    /\ split_idx' = split_idx + 1
    /\ UNCHANGED <<pc, examples, ratios, SplitFrame>>

\* Lines 86-95: one iteration of the loop over the patterns: the list of the
\* pattern is shuffled in place and cut in three.
SplitPattern ==
    /\ pc = "split"
    /\ split_idx <= Len(by_pattern)
    /\ \E pattern_examples \in Shuffles(by_pattern[split_idx][2]) :
            LET n == Len(pattern_examples)
                n_train == IntOfProduct(n, ratios.train_ratio)
                n_val == IntOfProduct(n, ratios.val_ratio)
            IN  /\ by_pattern' = [by_pattern EXCEPT ![split_idx][2] = pattern_examples]
                /\ train' = train \o PySlice(pattern_examples, 0, n_train)
                /\ val' = val \o PySlice(pattern_examples, n_train, n_train + n_val)
                /\ test' = test \o PySlice(pattern_examples, n_train + n_val, n)
    /\ split_idx' = split_idx + 1
    /\ UNCHANGED <<pc, examples, ratios, SplitFrame>>

\* Lines 97-102: the three lists are shuffled and returned.
SplitReturn ==
    /\ pc = "split"
    /\ split_idx > Len(by_pattern)
    /\ train' \in Shuffles(train)
    /\ val' \in Shuffles(val)
    /\ test' \in Shuffles(test)
    /\ pc' = "done"
    /\ UNCHANGED <<examples, ratios, by_pattern, split_idx, SplitFrame>>

NextSplits == SplitGroup \/ SplitPattern \/ SplitReturn

SpecSplits == InitSplits /\ [][NextSplits]_vars

\* ---------------------------------------------- auto_classify.auto_label_all
\* Lines 203-227: the detectors are tried in this order and the first that
\* fires names the pattern; a record holds here the set of detectors that fire
\* on it.
classify_record(record) ==
    IF "detect_skip" \in record["detected"] THEN "skip"
    ELSE IF "detect_import_statement" \in record["detected"] THEN "import_statement"
    ELSE IF "detect_getter_setter" \in record["detected"] THEN "getter_setter"
    ELSE IF "detect_function_signature_change" \in record["detected"]
         THEN "function_signature_change"
    ELSE IF "detect_function_rename" \in record["detected"] THEN "function_rename"
    ELSE IF "detect_variable_rename" \in record["detected"] THEN "variable_rename"
    ELSE IF "detect_refactoring" \in record["detected"] THEN "refactoring"
    ELSE "other"

\* Lines 25-35: the dict of the lines of the labels file, a later line of an
\* index replacing an earlier one; no file gives the empty dict.
load_labels(lines) ==
    [i \in {lines[k].record_index : k \in 1..Len(lines)} |->
        LET last == CHOOSE k \in 1..Len(lines) :
                        /\ lines[k].record_index = i
                        /\ \A m \in (k + 1)..Len(lines) : lines[m].record_index # i
        IN  lines[last].pattern_type]

\* {**a, **b}
MergeDicts(a, b) ==
    [i \in DOMAIN a \cup DOMAIN b |-> IF i \in DOMAIN b THEN b[i] ELSE a[i]]

\* sorted(keys), for a set of ints.
RECURSIVE sorted(_)
sorted(keys) ==
    IF keys = {} THEN <<>>
    ELSE LET least == CHOOSE k \in keys : \A m \in keys : k <= m
         IN  <<least>> \o sorted(keys \ {least})

\* Lines 254-258: one line per key of all_labels, in the order of the keys.
LabelLines(all_labels) ==
    [k \in 1..Cardinality(DOMAIN all_labels) |->
        [record_index |-> sorted(DOMAIN all_labels)[k],
         pattern_type |-> all_labels[sorted(DOMAIN all_labels)[k]]]]

DetectedSet ==
    { {},
      {"detect_skip", "detect_import_statement"},
      {"detect_getter_setter", "detect_refactoring"},
      {"detect_variable_rename"} }

\* load_records, lines 13-22: "_index" is the number of the record's line in
\* the dataset, blank lines leaving gaps.
RecordsSet ==
    UNION {{[k \in 1..Cardinality(ix) |->
                [_index |-> sorted(ix)[k], detected |-> ds[sorted(ix)[k]]]] :
                    ds \in [ix -> DetectedSet]} :
                ix \in SUBSET (0..MaxIndex)}

\* The lines a labels file may begin with: labels given by hand, of records of
\* the dataset and of a record that is not in it, in any order, an index twice.
LabelLineSet ==
    {[record_index |-> i, pattern_type |-> t] : i \in {0, 1, 7}, t \in {"other", "getter_setter"}}

InitLabel ==
    /\ pc = "load"
    /\ records \in RecordsSet
    /\ labels_file \in SeqUpTo(LabelLineSet, 2)
    /\ labels_file_before = <<>>
    /\ existing_labels = <<>>
    /\ new_labels = <<>>
    /\ stats = <<>>
    /\ label_pos = 0
    /\ runs = 0
    /\ examples = <<>>
    /\ ratios = <<>>
    /\ by_pattern = <<>>
    /\ split_idx = 0
    /\ train = <<>>
    /\ val = <<>>
    /\ test = <<>>
    /\ args = <<>>
    /\ kept = <<>>
    /\ drop_reasons = <<>>
    /\ filter_idx = 0
    /\ file_records = <<>>
    /\ all_chunks = <<>>
    /\ record_idx = 0
    /\ processed = 0
    /\ skipped = 0
    /\ call_pc = <<>>
    /\ call_hunks = <<>>
    /\ call_merged = <<>>
    /\ call_chunks = <<>>
    /\ local_file_record = <<>>
    /\ local_chunk_records = <<>>
    /\ file_record = <<>>
    /\ chunk_records = <<>>
    /\ context_before = 0
    /\ context_after = 0
    /\ max_gap = 0
    /\ patch = None
    /\ parsed = <<>>
    /\ hunks = <<>>
    /\ sorted_hunks = <<>>
    /\ merged = <<>>
    /\ idx = 0

LabelFrame ==
    <<max_gap, mergeVars, parseVars, chunkVars, datasetVars, copyVars, callVars, filterVars,
      splitVars>>

\* main, lines 273-274, and auto_label_all, lines 238-239: the labels are
\* loaded from the file, new_labels and stats start empty.
LabelLoad ==
    /\ pc = "load"
    /\ runs < MaxRuns
    /\ existing_labels' = load_labels(labels_file)
    /\ labels_file_before' = labels_file
    /\ new_labels' = [i \in {} |-> "other"]
    /\ stats' = [t \in {} |-> 0]
    /\ label_pos' = 1
    /\ pc' = "label"
    /\ UNCHANGED <<records, labels_file, runs, LabelFrame>>

\* The iteration that classifies a record whatever labels there are.
LabelRecordNoSkip ==
    /\ pc = "label"
    /\ label_pos <= Len(records)
    /\ LET record == records[label_pos]
           pattern == classify_record(record)
       IN  /\ new_labels' = MergeDicts(new_labels, [i \in {record["_index"]} |-> pattern])
           /\ stats' = MergeDicts(stats, [t \in {pattern} |->
                            (IF pattern \in DOMAIN stats THEN stats[pattern] ELSE 0) + 1])
    /\ label_pos' = label_pos + 1
    /\ UNCHANGED <<pc, records, labels_file, labels_file_before, existing_labels, runs,
                   LabelFrame>>

\* Lines 241-251: one iteration of the loop over records.
LabelRecord ==
    /\ pc = "label"
    /\ label_pos <= Len(records)
    /\ LET record == records[label_pos]
           pattern == classify_record(record)
       IN  IF record["_index"] \in DOMAIN existing_labels
           THEN UNCHANGED <<new_labels, stats>>
           ELSE /\ new_labels' = MergeDicts(new_labels, [i \in {record["_index"]} |-> pattern])
                /\ stats' = MergeDicts(stats, [t \in {pattern} |->
                                (IF pattern \in DOMAIN stats THEN stats[pattern] ELSE 0) + 1])
    /\ label_pos' = label_pos + 1
    /\ UNCHANGED <<pc, records, labels_file, labels_file_before, existing_labels, runs,
                   LabelFrame>>

\* Lines 253-264: all the labels are written to the file.
LabelSave ==
    /\ pc = "label"
    /\ label_pos > Len(records)
    /\ labels_file' = LabelLines(MergeDicts(existing_labels, new_labels))
    /\ runs' = runs + 1
    /\ pc' = "saved"
    /\ UNCHANGED <<records, labels_file_before, existing_labels, new_labels, stats, label_pos,
                   LabelFrame>>

\* main is run again on the same dataset.
LabelAgain ==
    /\ pc = "saved"
    /\ runs < MaxRuns
    /\ pc' = "load"
    /\ UNCHANGED <<labelVars, LabelFrame>>

NextLabel == LabelLoad \/ LabelRecord \/ LabelSave \/ LabelAgain

SpecLabel == InitLabel /\ [][NextLabel]_vars

\* ------------------------------------------------ claims on the merger
\* The lines a sequence of half-open ranges [start, end) covers.
Covered(rs) == UNION {rs[i][1]..(rs[i][2] - 1) : i \in 1..Len(rs)}

Contains(r, h) == r[1] <= h[1] /\ h[2] <= r[2]

\* C1: the regions merge_close_hunks returns are strictly ascending by start
\* and consecutive regions r, r' satisfy r.end <= r'.start.
C1_SortedDisjoint ==
    pc = "done" =>
        \A i \in 1..(Len(merged) - 1) :
            /\ merged[i][1] < merged[i + 1][1]
            /\ merged[i][2] <= merged[i + 1][1]

C1_Witness ==
    /\ pc = "done"
    /\ Len(hunks) = 3
    /\ Len(merged) = 2
    /\ hunks[1][1] > hunks[2][1]

\* C2 as stated: the returned regions cover exactly the lines the input hunks
\* cover.
C2_CoverageEqual == pc = "done" => Covered(merged) = Covered(hunks)

\* C2 amended: the returned regions cover every line the input hunks cover
\* (and possibly the lines of a gap of at most max_gap between them); with
\* max_gap = 0 the two sets of lines are equal.
C2_CoverageSuperset ==
    pc = "done" =>
        /\ Covered(hunks) \subseteq Covered(merged)
        /\ max_gap = 0 => Covered(merged) = Covered(hunks)

C2_Witness ==
    /\ pc = "done"
    /\ Len(merged) < Len(hunks)
    /\ Covered(merged) # Covered(hunks)

\* C3: every input hunk lies inside exactly one returned region.
C3_ExactlyOneRegion ==
    pc = "done" =>
        \A i \in 1..Len(hunks) :
            Cardinality({j \in 1..Len(merged) : Contains(merged[j], hunks[i])}) = 1

C3_Witness ==
    /\ pc = "done"
    /\ Len(hunks) = 3
    /\ Len(merged) = 2
    /\ \E i \in 1..3 : hunks[i][1] = hunks[i][2]

\* C5: merging the returned regions again with the same max_gap returns them
\* unchanged.
C5_Idempotent == pc = "done" => merge_close_hunks(merged, max_gap) = merged

C5_Witness ==
    /\ pc = "done"
    /\ Len(merged) = 2
    /\ Len(hunks) = 3
    /\ merged[1] \notin {hunks[i] : i \in 1..3}

\* C6: a larger max_gap never returns more regions, a smaller one never fewer.
C6_MonotoneInGap ==
    pc = "done" =>
        \A g \in 0..(MaxGap + 1) :
            /\ g >= max_gap => Len(merge_close_hunks(hunks, g)) <= Len(merged)
            /\ g <= max_gap => Len(merge_close_hunks(hunks, g)) >= Len(merged)

C6_Witness ==
    /\ pc = "done"
    /\ Len(merged) = 3
    /\ \E g \in 0..MaxGap : g > max_gap /\ Len(merge_close_hunks(hunks, g)) = 1

\* The scan and the function agree.
MergeReturnsFunction == pc = "done" => merged = merge_close_hunks(hunks, max_gap)

\* ------------------------------------------------ claims on the parser
\* C4 as stated: from a patch of valid hunk headers, every returned hunk has
\* start >= 1 and end > start.
C4_StartPositiveNonEmpty ==
    (pc = "done" /\ \A i \in 1..Len(patch) : patch[i] \in ValidHeaders) =>
        \A i \in 1..Len(parsed) : parsed[i][1] >= 1 /\ parsed[i][2] > parsed[i][1]

\* C4 amended: every returned hunk has start >= 0 and end >= start; and from a
\* patch of valid headers whose old starts are >= 1 and whose old counts are
\* omitted or >= 1, every returned hunk has start >= 1 and end > start.
C4_StartNonNegative ==
    pc = "done" =>
        /\ \A i \in 1..Len(parsed) : parsed[i][1] >= 0 /\ parsed[i][2] >= parsed[i][1]
        /\ (\A i \in 1..Len(patch) :
                \E os \in 1..MaxOldStart, oc \in {-1} \cup 1..MaxCount :
                    patch[i] = Header(os, oc, os + 1, oc, <<>>))
            => /\ Len(parsed) = Len(patch)
               /\ \A i \in 1..Len(parsed) : parsed[i][1] >= 1 /\ parsed[i][2] > parsed[i][1]

C4_Witness ==
    /\ pc = "done"
    /\ \A i \in 1..Len(patch) : patch[i] \in ValidHeaders
    /\ Len(parsed) = 2
    /\ parsed[1] = <<0, 0>>
    /\ parsed[2][1] >= 1 /\ parsed[2][2] = parsed[2][1]

\* ------------------------------------------------ claims on the chunker
\* A chunk of the chunked path: it carries a model_input_text.
HasText(c) == c["model_input_text"] # None

\* len(before_lines) of the record chunked.
BeforeLineCount == Len(split(file_record["before_content"]))

\* The merged hunks the returned chunks were made from, in order.
MergedHunksOfRecord ==
    merge_close_hunks(parse_patch_hunks(file_record["patch"]), max_gap)

Count(lines, x) == Cardinality({i \in 1..Len(lines) : lines[i] = x})

\* C7: every chunk emitted with text has editable_region_start >= 1 and
\* editable_region_end <= L, the number of lines of the before-content.
C7_RegionWithinFile ==
    pc = "done" =>
        \A i \in 1..Len(chunk_records) :
            HasText(chunk_records[i]) =>
                /\ chunk_records[i]["editable_region_start"] >= 1
                /\ chunk_records[i]["editable_region_end"] <= BeforeLineCount

\* Both clamps act: the padded hunk reaches before line 1 and past line L.
C7_Witness ==
    /\ pc = "done"
    /\ \E i \in 1..Len(chunk_records) :
        /\ HasText(chunk_records[i])
        /\ MergedHunksOfRecord[i][1] - context_before < 1
        /\ MergedHunksOfRecord[i][2] + context_after > BeforeLineCount
        /\ chunk_records[i]["editable_region_start"] = 1
        /\ chunk_records[i]["editable_region_end"] = BeforeLineCount

\* C8: the text of every chunk emitted with text holds exactly one start
\* marker line and exactly one end marker line, when the before-content holds
\* neither marker.
C8_MarkersAlwaysEmitted ==
    pc = "done" =>
        \A i \in 1..Len(chunk_records) :
            (/\ HasText(chunk_records[i])
             /\ Count(file_record["before_content"], START_MARKER) = 0
             /\ Count(file_record["before_content"], END_MARKER) = 0)
            => /\ Count(chunk_records[i]["model_input_text"], START_MARKER) = 1
               /\ Count(chunk_records[i]["model_input_text"], END_MARKER) = 1

\* The lines of the after-content: none when it is None.
AfterLinesOfRecord == split(file_record["after_content"])

\* C9: for every chunk emitted with text, model_target_text is the after-lines
\* editable_region_start..editable_region_end joined with newlines when both
\* bounds are <= lineCount(after), and None otherwise.
C9_TargetFromAfterLines ==
    pc = "done" =>
        \A i \in 1..Len(chunk_records) :
            HasText(chunk_records[i]) =>
                LET rs == chunk_records[i]["editable_region_start"]
                    re == chunk_records[i]["editable_region_end"]
                IN  IF rs <= Len(AfterLinesOfRecord) /\ re <= Len(AfterLinesOfRecord)
                    THEN chunk_records[i]["model_target_text"]
                            = join(SubSeq(AfterLinesOfRecord, rs, re))
                    ELSE chunk_records[i]["model_target_text"] = None

\* C9 holds of every record whose after-content is present.
C9_TargetWhenAfterPresent ==
    FalsyText(file_record["after_content"]) \/ C9_TargetFromAfterLines

\* C10: a record with patch and before-content present and the after-content
\* absent gives the single chunk with chunk_id 0, total_chunks_in_file 1 and
\* no model_input_text and no model_target_text.
C10_AfterAbsentNotChunkable ==
    (/\ pc = "done"
     /\ ~Falsy(file_record["patch"])
     /\ ~FalsyText(file_record["before_content"])
     /\ FalsyText(file_record["after_content"]))
    => /\ Len(chunk_records) = 1
       /\ chunk_records[1]["chunk_id"] = 0
       /\ chunk_records[1]["total_chunks_in_file"] = 1
       /\ chunk_records[1]["model_input_text"] = None
       /\ chunk_records[1]["model_target_text"] = None

\* C11: a record whose patch is empty or absent, or whose before-content is
\* empty or absent, or whose patch has no parseable hunk header, gives exactly
\* one chunk, with chunk_id 0, total_chunks_in_file 1, is_multi_chunk_file
\* false and no model_input_text and no model_target_text.
C11_NotChunkableSingleChunk ==
    (/\ pc = "done"
     /\ \/ Falsy(file_record["patch"])
        \/ FalsyText(file_record["before_content"])
        \/ parse_patch_hunks(file_record["patch"]) = <<>>)
    => /\ Len(chunk_records) = 1
       /\ chunk_records[1]["chunk_id"] = 0
       /\ chunk_records[1]["total_chunks_in_file"] = 1
       /\ chunk_records[1]["is_multi_chunk_file"] = FALSE
       /\ chunk_records[1]["model_input_text"] = None
       /\ chunk_records[1]["model_target_text"] = None

\* The patch is there, the before-content too, and no line of the patch parses.
C11_Witness ==
    /\ pc = "done"
    /\ ~Falsy(file_record["patch"])
    /\ Len(file_record["patch"]) = 2
    /\ ~FalsyText(file_record["before_content"])
    /\ parse_patch_hunks(file_record["patch"]) = <<>>
    /\ Len(chunk_records) = 1
    /\ chunk_records[1]["model_input_text"] = None

\* C13: whatever the patch (absent, empty, malformed or well-formed headers,
\* hunks beyond the end of the file), the before-content and the after-content
\* (absent, empty or a text) and the parameters, the call returns: the list is
\* not empty and each chunk carries chunk_id, total_chunks_in_file,
\* model_input_text and model_target_text.
C13_ReturnsNonEmptyChunks ==
    pc = "done" =>
        /\ Len(chunk_records) >= 1
        /\ \A i \in 1..Len(chunk_records) :
                {"chunk_id", "total_chunks_in_file", "model_input_text",
                 "model_target_text"} \subseteq DOMAIN chunk_records[i]

\* A hunk that lies beyond the end of the file, the after-content absent.
C13_Witness ==
    /\ pc = "done"
    /\ ~FalsyText(file_record["before_content"])
    /\ file_record["after_content"] = None
    /\ \E i \in 1..Len(MergedHunksOfRecord) :
            MergedHunksOfRecord[i][1] > BeforeLineCount
    /\ Len(chunk_records) >= 1
    /\ "model_target_text" \in DOMAIN chunk_records[1]

\* C14: the call leaves the record passed in unchanged: after the call,
\* file_record has exactly the keys and the values it had before it, in the
\* chunked case as in the not-chunkable case (a returned chunk that is the
\* record itself shows as the keys written to the chunk appearing on the record).
C14_InputUnchanged == [][file_record' = file_record]_vars

\* The record is chunked: patch and before-content are there and the patch has
\* a header that parses.
Chunked ==
    /\ ~Falsy(file_record["patch"])
    /\ ~FalsyText(file_record["before_content"])
    /\ parse_patch_hunks(file_record["patch"]) # <<>>

\* C19: a chunked record with n merged regions gives exactly n chunks, one per
\* region in region order; the i-th chunk, counted from 0, has chunk_id i, every
\* chunk has total_chunks_in_file n, and is_multi_chunk_file is true exactly
\* when n > 1.
C19_OneChunkPerRegion ==
    (pc = "done" /\ Chunked) =>
        LET n == Len(MergedHunksOfRecord)
        IN  /\ Len(chunk_records) = n
            /\ \A i \in 1..n :
                    /\ chunk_records[i]["chunk_id"] = i - 1
                    /\ chunk_records[i]["total_chunks_in_file"] = n
                    /\ chunk_records[i]["is_multi_chunk_file"] = (n > 1)
                    /\ chunk_records[i]["editable_region_start"] =
                            Max(1, MergedHunksOfRecord[i][1] - context_before)

\* Two regions, two chunks, numbered 0 and 1.
C19_Witness ==
    /\ pc = "done"
    /\ Chunked
    /\ Len(MergedHunksOfRecord) = 2
    /\ Len(chunk_records) = 2
    /\ chunk_records[2]["chunk_id"] = 1
    /\ chunk_records[2]["is_multi_chunk_file"] = TRUE

\* C20: in the model_input_text of a chunk whose region bounds lie in 1..L, the
\* start marker is the line just before before-line editable_region_start, the
\* end marker is the line just after before-line editable_region_end, and all
\* the before-lines are there in their order.
C20_MarkersAroundRegion ==
    pc = "done" =>
        \A i \in 1..Len(chunk_records) :
            LET c == chunk_records[i]
                before_lines == split(file_record["before_content"])
                L == Len(before_lines)
            IN  (/\ HasText(c)
                 /\ c["editable_region_start"] \in 1..L
                 /\ c["editable_region_end"] \in 1..L)
                => c["model_input_text"] =
                        SubSeq(before_lines, 1, c["editable_region_start"] - 1)
                            \o <<START_MARKER>>
                            \o SubSeq(before_lines, c["editable_region_start"],
                                      c["editable_region_end"])
                            \o <<END_MARKER>>
                            \o SubSeq(before_lines, c["editable_region_end"] + 1, L)

\* A region of two lines strictly inside a file of three.
C20_Witness ==
    /\ pc = "done"
    /\ BeforeLineCount = 3
    /\ \E i \in 1..Len(chunk_records) :
            /\ HasText(chunk_records[i])
            /\ chunk_records[i]["editable_region_start"] = 2
            /\ chunk_records[i]["editable_region_end"] = 3
            /\ Len(chunk_records[i]["model_input_text"]) = 5
            /\ chunk_records[i]["model_input_text"][2] = START_MARKER
            /\ chunk_records[i]["model_input_text"][5] = END_MARKER

\* C16: for every merged region (start, end) of a chunked record, the chunk's
\* editable_region_start is max(1, start - context_before) and its
\* editable_region_end is min(L, end + context_after), L the number of
\* before-lines; the single hunk [10,12) with context_before 1, context_after 5
\* and max_gap 10 gives exactly one chunk, of region 9..17, or 9..L when L < 17.
C16_RegionBounds ==
    (pc = "done" /\ Chunked) =>
        LET L == BeforeLineCount
        IN  /\ Len(chunk_records) = Len(MergedHunksOfRecord)
            /\ \A i \in 1..Len(chunk_records) :
                    LET start == MergedHunksOfRecord[i][1]
                        end == MergedHunksOfRecord[i][2]
                    IN  /\ chunk_records[i]["editable_region_start"] =
                                (IF start - context_before >= 1
                                 THEN start - context_before ELSE 1)
                        /\ chunk_records[i]["editable_region_end"] =
                                (IF end + context_after <= L
                                 THEN end + context_after ELSE L)
            /\ (/\ parse_patch_hunks(file_record["patch"]) = <<<<10, 12>>>>
                /\ context_before = 1
                /\ context_after = 5
                /\ max_gap = 10)
               => /\ Len(chunk_records) = 1
                  /\ chunk_records[1]["editable_region_start"] = 9
                  /\ chunk_records[1]["editable_region_end"] = (IF L < 17 THEN L ELSE 17)

\* The hunk [10,12) in a file of 20 lines: one chunk, of region 9..17.
C16_Witness ==
    /\ pc = "done"
    /\ parse_patch_hunks(file_record["patch"]) = <<<<10, 12>>>>
    /\ BeforeLineCount = 20
    /\ context_before = 1
    /\ context_after = 5
    /\ max_gap = 10
    /\ Len(chunk_records) = 1
    /\ chunk_records[1]["editable_region_start"] = 9
    /\ chunk_records[1]["editable_region_end"] = 17

\* ------------------------------------------------------ claims on the parser
\* The header lines of PatchLineSet with the old start and the old count (-1:
\* omitted) they were written with: the valid headers, and the two other lines
\* that start with @@ and hold the range syntax further on or with leading zeros.
HeaderTable ==
    {<<Header(os, oc, os + 1, oc, <<>>), os, oc>> :
            os \in 0..MaxOldStart, oc \in (-1)..MaxCount}
        \cup {<<Header(12, 10, 12, 11, <<" ", "f">>), 12, 10>>,
              <<Header(7, -1, 7, -1, <<>>), 7, -1>>,
              <<<<"@">> \o Header(2, 1, 2, 1, <<"@">>), 2, 1>>,
              <<<<"@", "@", " ", "-", "0", "3", ",", "0", "2", " ", "+", "3", " ", "@", "@">>,
                3, 2>>}

IsHeaderLine(line) == \E h \in HeaderTable : h[1] = line

\* The hunk a header line stands for: (oldStart, oldStart + oldCount), the
\* count being 1 when omitted.
HunkOfHeader(line) ==
    LET h == CHOOSE h \in HeaderTable : h[1] = line
    IN  <<h[2], h[2] + (IF h[3] < 0 THEN 1 ELSE h[3])>>

\* One hunk per header line among lines[from..to], in the order of the lines.
RECURSIVE HunksOfHeaders(_, _, _)
HunksOfHeaders(lines, from, to) ==
    IF from > to THEN <<>>
    ELSE (IF IsHeaderLine(lines[from]) THEN <<HunkOfHeader(lines[from])>> ELSE <<>>)
            \o HunksOfHeaders(lines, from + 1, to)

\* C17: parse_patch_hunks returns, in the order of the lines, exactly one hunk
\* (oldStart, oldStart + oldCount) per header line of the patch, oldCount being
\* 1 when omitted; nothing is deduplicated, so there are as many hunks as
\* header lines and equal or overlapping hunks are returned as they are.
C17_OneHunkPerHeader ==
    (pc = "done" /\ patch # None) =>
        /\ parsed = HunksOfHeaders(patch, 1, Len(patch))
        /\ Len(parsed) = Cardinality({i \in 1..Len(patch) : IsHeaderLine(patch[i])})

\* The same header twice, one with its count omitted: two equal hunks.
C17_Witness ==
    /\ pc = "done"
    /\ patch = <<Header(1, -1, 2, -1, <<>>), Header(1, 1, 2, 1, <<>>)>>
    /\ parsed = <<<<1, 2>>, <<1, 2>>>>

\* C18: parse_patch_hunks returns the empty sequence for an empty or absent
\* patch, and a line that starts with @@ without the range syntax is skipped:
\* the hunks of the well-formed headers before it and after it are returned.
C18_MalformedSkipped ==
    pc = "done" =>
        /\ (patch = None \/ patch = <<<<>>>>) => parsed = <<>>
        /\ \A j \in 1..Len(patch) :
                patch[j] \in MalformedLines =>
                    parsed = HunksOfHeaders(patch, 1, j - 1)
                                \o HunksOfHeaders(patch, j + 1, Len(patch))

\* A malformed header line between two headers: both hunks are returned.
C18_Witness ==
    /\ pc = "done"
    /\ Len(patch) = 3
    /\ patch[2] = <<"@", "@", " ", "x">>
    /\ IsHeaderLine(patch[1])
    /\ IsHeaderLine(patch[3])
    /\ parsed = <<<<1, 3>>, <<2, 3>>>>

\* The reference merger.  The hunks in ascending order of start: hunks[i] goes
\* to the place that counts the hunks of a smaller start, and those of the same
\* start that come before it.
RefPlace(h, i) ==
    1 + Cardinality({j \in 1..Len(h) : h[j][1] < h[i][1] \/ (h[j][1] = h[i][1] /\ j < i)})

RefSorted(h) == [k \in 1..Len(h) |-> h[CHOOSE i \in 1..Len(h) : RefPlace(h, i) = k]]

\* The scan from hunk i on, cur being the open region: a hunk whose start is
\* at most gap lines after cur's end extends cur to the larger end, another
\* one closes cur and opens a region of its own.
RECURSIVE RefScan(_, _, _, _)
RefScan(s, i, cur, gap) ==
    IF i > Len(s) THEN <<cur>>
    ELSE IF s[i][1] - cur[2] <= gap
         THEN RefScan(s, i + 1, <<cur[1], IF s[i][2] > cur[2] THEN s[i][2] ELSE cur[2]>>, gap)
         ELSE <<cur>> \o RefScan(s, i + 1, s[i], gap)

RefMerge(h, gap) == IF h = <<>> THEN <<>> ELSE RefScan(RefSorted(h), 2, RefSorted(h)[1], gap)

\* C15: merge_close_hunks returns what the reference merger returns (a gap
\* equal to max_gap merges, and the end of a region is the larger end); the
\* hunks [5,8) and [15,18) give the one region [5,18) for max_gap 10 and the
\* two regions [5,8), [15,18) for max_gap 5; no hunk gives no region.
C15_EqualsReference ==
    pc = "done" =>
        /\ merged = RefMerge(hunks, max_gap)
        /\ (hunks = <<<<5, 8>>, <<15, 18>>>> /\ max_gap = 10) => merged = <<<<5, 18>>>>
        /\ (hunks = <<<<5, 8>>, <<15, 18>>>> /\ max_gap = 7) => merged = <<<<5, 18>>>>
        /\ (hunks = <<<<5, 8>>, <<15, 18>>>> /\ max_gap = 5) => merged = <<<<5, 8>>, <<15, 18>>>>
        /\ hunks = <<>> => merged = <<>>

\* The two hunks seven lines apart merged with a max_gap of exactly seven.
C15_Witness ==
    /\ pc = "done"
    /\ hunks = <<<<5, 8>>, <<15, 18>>>>
    /\ max_gap = 7
    /\ merged = <<<<5, 18>>>>

\* ------------------------------------------- claims on add_markers_to_dataset
\* The position in file_records of the record the k-th returned chunk is of.
RecordOfChunk(k) ==
    CHOOSE i \in 1..Len(file_records) :
        file_records[i]["file_path"] = all_chunks[k]["file_path"]

\* C12: every record of the list contributes one chunk or more to the list
\* add_markers_to_dataset returns; the chunks of a record follow one another,
\* in chunk_id order from 0; the records keep their order; none is dropped.
C12_EveryRecordHasChunks ==
    pc = "done" =>
        /\ \A k \in 1..Len(all_chunks) :
                \E i \in 1..Len(file_records) :
                    file_records[i]["file_path"] = all_chunks[k]["file_path"]
        /\ \A i \in 1..Len(file_records) :
                \E k \in 1..Len(all_chunks) : RecordOfChunk(k) = i
        /\ \A k \in 1..Len(all_chunks) :
                IF k > 1 /\ RecordOfChunk(k - 1) = RecordOfChunk(k)
                THEN all_chunks[k]["chunk_id"] = all_chunks[k - 1]["chunk_id"] + 1
                ELSE /\ all_chunks[k]["chunk_id"] = 0
                     /\ k > 1 => RecordOfChunk(k - 1) < RecordOfChunk(k)

\* A record of two chunks, then a record that is not chunkable: three chunks.
C12_Witness ==
    /\ pc = "done"
    /\ Len(file_records) = 2
    /\ Len(all_chunks) = 3
    /\ all_chunks[2]["file_path"] = "f1"
    /\ all_chunks[2]["chunk_id"] = 1
    /\ all_chunks[3]["file_path"] = "f2"
    /\ all_chunks[3]["model_input_text"] = None
    /\ skipped = 1

\* ------------------------------------------------- claims on the merge scan
\* C23: the scan never goes back: at every step of the scan every region
\* closed already (every entry of merged but the last) stays as it is, the
\* start of the open region stays as it is and its end never decreases, also
\* when a later hunk lies entirely inside an earlier one.
C23_ScanNeverBacktracks ==
    [][(pc = "loop" /\ merged # <<>>) =>
            /\ Len(merged') >= Len(merged)
            /\ \A i \in 1..(Len(merged) - 1) : merged'[i] = merged[i]
            /\ merged'[Len(merged)][1] = merged[Len(merged)][1]
            /\ merged'[Len(merged)][2] >= merged[Len(merged)][2]]_vars

\* The scan has gone over a second hunk that lies inside the first, ending
\* before it: the open region is still the first hunk.
C23_Witness ==
    /\ pc = "loop"
    /\ idx = 3
    /\ sorted_hunks[1][1] < sorted_hunks[2][1]
    /\ sorted_hunks[2][2] < sorted_hunks[1][2]
    /\ merged = <<sorted_hunks[1]>>

\* ------------------------------------------ further claims on the chunker
IsMarker(line) == line = START_MARKER \/ line = END_MARKER

NotMarker(line) == ~IsMarker(line)

\* C24: for every chunk with a model_input_text, of a record whose
\* before-content holds no marker line, deleting the start and end marker
\* lines from model_input_text gives back the before-content.
C24_MarkersLossless ==
    pc = "done" =>
        \A i \in 1..Len(chunk_records) :
            (/\ HasText(chunk_records[i])
             /\ \A j \in 1..BeforeLineCount : NotMarker(file_record["before_content"][j]))
            => join(SelectSeq(chunk_records[i]["model_input_text"], NotMarker))
                    = file_record["before_content"]

\* A chunk of a file of three lines with both markers in its text.
C24_Witness ==
    /\ pc = "done"
    /\ file_record["before_content"] = Text("b", 3)
    /\ Len(chunk_records) = 1
    /\ HasText(chunk_records[1])
    /\ Count(chunk_records[1]["model_input_text"], START_MARKER) = 1
    /\ Count(chunk_records[1]["model_input_text"], END_MARKER) = 1
    /\ Len(chunk_records[1]["model_input_text"]) = 5

\* C25: every chunk with a model_input_text has a non-empty region inside the
\* file: 1 <= editable_region_start <= editable_region_end <= L, L the number
\* of before-lines, whatever hunk the parser returns (one that starts at line
\* 0, an empty one, one that starts beyond line L) and whatever the contexts.
C25_RegionNonEmptyInFile ==
    pc = "done" =>
        \A i \in 1..Len(chunk_records) :
            HasText(chunk_records[i]) =>
                /\ 1 <= chunk_records[i]["editable_region_start"]
                /\ chunk_records[i]["editable_region_start"]
                        <= chunk_records[i]["editable_region_end"]
                /\ chunk_records[i]["editable_region_end"] <= BeforeLineCount

\* C26: when max_gap >= context_before + context_after, the regions of the
\* chunks of one record do not overlap: for chunks i < j, editable_region_end
\* of chunk i is strictly less than editable_region_start of chunk j.
C26_RegionsDisjoint ==
    (pc = "done" /\ Chunked /\ max_gap >= context_before + context_after) =>
        \A i, j \in 1..Len(chunk_records) :
            i < j => chunk_records[i]["editable_region_end"]
                        < chunk_records[j]["editable_region_start"]

\* Two chunks of a file of three lines, each context one line, the regions
\* next to each other.
C26_Witness ==
    /\ pc = "done"
    /\ Chunked
    /\ context_before = 1
    /\ context_after = 1
    /\ max_gap >= 2
    /\ Len(chunk_records) = 2
    /\ HasText(chunk_records[1])
    /\ chunk_records[1]["editable_region_end"] = BeforeLineCount
    /\ chunk_records[2]["editable_region_start"] > BeforeLineCount

\* The lines of the before-file, 1..L.
FileLines == 1..BeforeLineCount

\* C27: the region covers the edit: for every chunk of a chunked record, every
\* line n of the file that lies in the chunk's merged region [start, end) has
\* editable_region_start <= n <= editable_region_end; hence every line of the
\* file that a parsed hunk covers lies inside the region of some chunk.
C27_RegionCoversEdit ==
    (pc = "done" /\ Chunked) =>
        /\ Len(chunk_records) = Len(MergedHunksOfRecord)
        /\ \A i \in 1..Len(chunk_records) :
                \A n \in FileLines :
                    (MergedHunksOfRecord[i][1] <= n /\ n < MergedHunksOfRecord[i][2])
                    => /\ chunk_records[i]["editable_region_start"] <= n
                       /\ n <= chunk_records[i]["editable_region_end"]
        /\ \A n \in FileLines \cap Covered(parse_patch_hunks(file_record["patch"])) :
                \E i \in 1..Len(chunk_records) :
                    /\ chunk_records[i]["editable_region_start"] <= n
                    /\ n <= chunk_records[i]["editable_region_end"]

\* Two hunks of a file of three lines, merged into one region of the lines
\* 1 and 2, a context of one line before.
C27_Witness ==
    /\ pc = "done"
    /\ Chunked
    /\ BeforeLineCount = 3
    /\ context_before = 1
    /\ Len(parse_patch_hunks(file_record["patch"])) = 2
    /\ MergedHunksOfRecord = <<<<1, 3>>>>
    /\ chunk_records[1]["editable_region_start"] = 1
    /\ chunk_records[1]["editable_region_end"] >= 2

\* ------------------------------------------------ claims on the two copies
\* C21: the copy of extract_dataset.py and the copy of local_extract.py agree:
\* for every record and every (context_before, context_after, max_gap),
\* parse_patch_hunks, merge_close_hunks, add_editable_region_markers and
\* add_markers_to_dataset of the one return what those of the other return,
\* the same chunks with the same marker strings and the same region bounds
\* (and leave the record passed in in the same state).
C21_CopiesAgree ==
    /\ pc = "call" =>
            LET p == file_record["patch"]
                one == <<file_record>>
            IN  /\ local_parse_patch_hunks(p) = parse_patch_hunks(p)
                /\ local_merge_close_hunks(parse_patch_hunks(p), max_gap)
                        = merge_close_hunks(parse_patch_hunks(p), max_gap)
                /\ local_add_markers_to_dataset(one, context_before, context_after, max_gap)
                        = add_markers_to_dataset(one, context_before, context_after, max_gap)
    /\ pc = "done" =>
            /\ local_chunk_records = chunk_records
            /\ local_file_record = file_record

\* A record of two chunks with their markers, the same from both copies.
C21_Witness ==
    /\ pc = "done"
    /\ Len(chunk_records) = 2
    /\ HasText(chunk_records[1])
    /\ Count(chunk_records[1]["model_input_text"], START_MARKER) = 1
    /\ Count(chunk_records[2]["model_input_text"], END_MARKER) = 1
    /\ local_chunk_records = chunk_records

\* ------------------------------------------- claims on interleaved calls
\* The record as it was given to the call: without the keys an early return
\* writes to it.
AsGiven(rec) ==
    [k \in DOMAIN rec \ {"chunk_id", "total_chunks_in_file", "is_multi_chunk_file",
                         "model_input_text", "model_target_text"} |-> rec[k]]

\* The lists of a sequence of lists, one after the other.
RECURSIVE Concat(_)
Concat(lists) == IF lists = <<>> THEN <<>> ELSE Head(lists) \o Concat(Tail(lists))

\* C22: the records are chunked independently: however the steps of the calls
\* on distinct records are ordered and interleaved, the chunks of each record
\* are those of a call on that record alone, and once all calls have returned
\* the chunks are, record by record, those of add_markers_to_dataset.
C22_CallsIndependent ==
    pc = "calls" =>
        /\ \A i \in 1..Len(file_records) :
                call_pc[i] = "done" =>
                    call_chunks[i] =
                        add_editable_region_markers(AsGiven(file_records[i]), context_before,
                                                    context_after, max_gap)
        /\ (\A i \in 1..Len(file_records) : call_pc[i] = "done") =>
                Concat(call_chunks) =
                    add_markers_to_dataset([i \in 1..Len(file_records) |->
                                                AsGiven(file_records[i])],
                                           context_before, context_after, max_gap)
        /\ \A i \in 1..Len(file_records) :
                call_pc[i] = "enter" => file_records[i] = AsGiven(file_records[i])
        /\ \A i \in 1..Len(file_records) :
                call_pc[i] \in {"parse", "merge", "chunk"} =>
                    /\ file_records[i] = AsGiven(file_records[i])
                    /\ \A j \in 1..Len(call_chunks[i]) :
                            call_chunks[i][j] =
                                add_editable_region_markers(
                                    file_records[i], context_before, context_after, max_gap)[j]

\* The call on the second record has returned while the call on the first,
\* entered before, has built one of its two chunks.
C22_Witness ==
    /\ pc = "calls"
    /\ Len(file_records) >= 2
    /\ call_pc[1] = "chunk"
    /\ Len(call_merged[1]) = 2
    /\ Len(call_chunks[1]) = 1
    /\ call_pc[2] = "done"
    /\ Len(call_chunks[2]) >= 1

\* ---------------------------------------------- claims on chunker and filter
\* The three tests of the filter on a record whose three values are present.
PassesTests(record) ==
    /\ "total_changes" \in DOMAIN record
    /\ "total_files_in_commit" \in DOMAIN record
    /\ "total_chunks_in_file" \in DOMAIN record
    /\ record["total_changes"] # NoneInt
    /\ record["total_files_in_commit"] # NoneInt
    /\ record["total_chunks_in_file"] # NoneInt
    /\ record["total_changes"] <= args.max_total_changes
    /\ record["total_files_in_commit"] <= args.max_files_per_commit
    /\ record["total_chunks_in_file"] >= args.min_chunks_per_file

\* C28: over the chunks add_markers_to_dataset returns, a should_keep run with
\* min_chunks_per_file >= 2 keeps only records with a model_input_text and
\* is_multi_chunk_file true (no not-chunkable chunk passes), and a record is
\* kept exactly when total_changes <= max_total_changes, total_files_in_commit
\* <= max_files_per_commit and total_chunks_in_file >= min_chunks_per_file, the
\* three being present.
C28_FilterKeepsMultiChunk ==
    pc \in {"filter", "done"} =>
        /\ args.min_chunks_per_file >= 2 =>
                \A k \in 1..Len(kept) :
                    /\ kept[k]["model_input_text"] # None
                    /\ kept[k]["is_multi_chunk_file"] = TRUE
        /\ kept = SelectSeq(SubSeq(all_chunks, 1, filter_idx - 1), PassesTests)

\* With the defaults, a chunk of a file of two chunks is kept and a chunk that
\* is not chunkable is dropped for its chunk count.
C28_Witness ==
    /\ pc = "done"
    /\ args.min_chunks_per_file = 2
    /\ Len(kept) >= 1
    /\ kept[1]["total_chunks_in_file"] = 2
    /\ "single_chunk_file" \in DOMAIN drop_reasons
    /\ \E j \in 1..Len(all_chunks) :
            /\ all_chunks[j]["model_input_text"] = None
            /\ all_chunks[j]["total_changes"] <= args.max_total_changes
            /\ all_chunks[j]["total_files_in_commit"] <= args.max_files_per_commit

\* --------------------------------------------------- claims on create_splits
ElementsOf(list) == {list[i] : i \in 1..Len(list)}

\* The examples of pattern p in a list.
OfPattern(list, p) == {i \in 1..Len(list) : list[i]["pattern_type"] = p}

\* C29: create_splits partitions its input: train, validation and test are
\* pairwise disjoint and together hold every example exactly once; of the n
\* examples of a pattern, train holds floor(n * train_ratio), validation the
\* next floor(n * val_ratio), and test every other one.
C29_SplitsPartition ==
    pc = "done" =>
        /\ ElementsOf(train) \cap ElementsOf(val) = {}
        /\ ElementsOf(train) \cap ElementsOf(test) = {}
        /\ ElementsOf(val) \cap ElementsOf(test) = {}
        /\ ElementsOf(train) \cup ElementsOf(val) \cup ElementsOf(test) = ElementsOf(examples)
        /\ Len(train) + Len(val) + Len(test) = Len(examples)
        /\ \A p \in {"p", "q"} :
                LET n == Cardinality(OfPattern(examples, p))
                    n_train == (n * ratios.train_ratio[1]) \div ratios.train_ratio[2]
                    n_val == (n * ratios.val_ratio[1]) \div ratios.val_ratio[2]
                IN  /\ Cardinality(OfPattern(train, p)) = n_train
                    /\ Cardinality(OfPattern(val, p)) = n_val
                    /\ Cardinality(OfPattern(test, p)) = n - n_train - n_val
        /\ \A k \in 1..Len(by_pattern) :
                LET shuffled == by_pattern[k][2]
                    n == Len(shuffled)
                    n_train == (n * ratios.train_ratio[1]) \div ratios.train_ratio[2]
                    n_val == (n * ratios.val_ratio[1]) \div ratios.val_ratio[2]
                IN  \A i \in 1..n :
                        /\ i <= n_train => shuffled[i] \in ElementsOf(train)
                        /\ (n_train < i /\ i <= n_train + n_val) =>
                                shuffled[i] \in ElementsOf(val)
                        /\ i > n_train + n_val => shuffled[i] \in ElementsOf(test)

\* Four examples of one pattern and the default ratios: three in train, none
\* in validation, the one left in test.
C29_Witness ==
    /\ pc = "done"
    /\ Len(examples) = 4
    /\ Len(by_pattern) = 1
    /\ ratios.train_ratio = <<8, 10>>
    /\ Len(train) = 3
    /\ Len(val) = 0
    /\ Len(test) = 1

\* -------------------------------------------------- claims on auto_label_all
IndicesOf(lines) == {lines[k].record_index : k \in 1..Len(lines)}

\* C30: auto_label_all never changes the label of an index that is in
\* existing_labels; the labels it writes hold exactly one label for every
\* record index loaded, together with all the existing labels; and a second
\* run, given the labels written as existing_labels, assigns no new label and
\* writes the same labels.
C30_LabelsKept ==
    /\ pc \in {"label", "saved"} =>
            DOMAIN new_labels \cap DOMAIN existing_labels = {}
    /\ pc = "saved" =>
            /\ \A k \in 1..Len(labels_file) :
                    labels_file[k].record_index \in DOMAIN existing_labels =>
                        labels_file[k].pattern_type =
                            existing_labels[labels_file[k].record_index]
            /\ IndicesOf(labels_file) =
                    {records[j]["_index"] : j \in 1..Len(records)} \cup DOMAIN existing_labels
            /\ Len(labels_file) = Cardinality(IndicesOf(labels_file))
            /\ runs >= 2 =>
                    /\ DOMAIN new_labels = {}
                    /\ labels_file = labels_file_before

\* The second run has ended: the first had labelled a record and kept a label
\* given by hand, the second wrote the same file.
C30_Witness ==
    /\ pc = "saved"
    /\ runs = 2
    /\ Len(records) >= 2
    /\ Len(labels_file) >= 3
    /\ labels_file = labels_file_before
    /\ \E k \in 1..Len(labels_file) :
            /\ labels_file[k].record_index = 0
            /\ labels_file[k].pattern_type = "getter_setter"
            /\ classify_record(records[1]) = "skip"
            /\ records[1]["_index"] = 0

====
